---- MODULE Spec2Model ----
(***************************************************************************)
(* Model of the nixcache server: the upload handler (unchunked and chunked *)
(* paths), the local storage backend, the chunker, the merge reader and    *)
(* the NAR download handler.                                               *)
(***************************************************************************)
EXTENDS Integers, Sequences, FiniteSets, TLC

\* ---------------------------------------------------------------- bounds
\* longest request body of the end-to-end specifications
MaxBody == 3
\* uploads per behaviour in the re-upload specification
MaxUploads == 2
\* storage failures injected per behaviour
MaxFaults == 1
\* chunks of the archive in the permit specification, beyond the permits
ExtraChunks == 2
\* descriptors and frames of the merge specification
MaxDescs == 3
MaxFrames == 2
MaxPrefetch == 2
\* SpecChunking: the largest max_size, the longest body, the largest read
MaxChunkSize == 4
MaxChunkBody == 4
MaxRead == 2
\* SpecRequest: the most archive bytes after the upload info
MaxPreambleNar == 1
\* SpecGet: the longest archive stored
MaxGetBody == 1
\* SpecError: the number of causes an error may wrap
MaxCause == 14
\* SpecS3: the longest stream, the most failures
MaxS3Body == 5
MaxS3Faults == 1
\* SpecIdem: the longest archive, the number of times it is uploaded
MaxIdemBody == 3
MaxIdemUploads == 2
\* SpecRace: the longest archive
MaxRaceBody == 2
\* SpecHasher: the longest stream, the largest buffer, the most reads that
\* return 0
MaxHashBody == 3
MaxHashCap == 4
MaxEosReads == 2
\* SpecBase32: the longest byte string
MaxB32Len == 3
\* SpecPush: the most workers of a Pusher, the most path_infos queued
MaxWorkers == 2
MaxJobs == 3

\* ------------------------------------------------------ program constants
CONCURRENT_CHUNK_UPLOADS == 10
NUM_PREFETCH == 2

\* --------------------------------------------------------------- helpers
Min(a, b) == IF a < b THEN a ELSE b

Byte == {0, 1}

SeqsUpTo(S, n) == UNION {[1..k -> S] : k \in 0..n}

RECURSIVE Concat(_)
Concat(ss) == IF ss = <<>> THEN <<>> ELSE Head(ss) \o Concat(Tail(ss))

\* Option values: <<>> is None, <<x>> is Some(x)
NoneV == <<>>
Some(x) == <<x>>
IsSome(o) == o # <<>>
Unwrap(o) == o[1]

\* AsyncReadExt::take: at most n bytes of the stream
Take(s, n) == SubSeq(s, 1, Min(n, Len(s)))

\* Sha256 digest, collision free over the modelled byte strings: the
\* string is cut into words of DigestWord symbols and each word is turned
\* into its bijective base-5 numeral (symbols 0..3).
DigestWord == 12
RECURSIVE Numeral(_)
Numeral(s) == IF s = <<>> THEN 0 ELSE (s[1] + 1) + 5 * Numeral(Tail(s))

RECURSIVE Sha256(_)
Sha256(s) ==
    IF Len(s) <= DigestWord THEN <<Numeral(s)>>
    ELSE <<Numeral(SubSeq(s, 1, DigestWord))>> \o Sha256(SubSeq(s, DigestWord + 1, Len(s)))

\* a digest that differs from h
OtherHash(h) == [h EXCEPT ![1] = @ + 1]

\* Hash::to_typed_base32, the storage key of a chunk
ToTypedBase32(h) == <<"sha256", h>>

\* ------------------------------------------------------------ compression
CompressionTypes == {"none", "brotli", "zstd", "xz"}

\* The encoders are library code: each is modelled as a frame header
\* followed by a packed payload in which a pair of equal bytes b b becomes
\* the single symbol 2 + b, so output can be shorter or longer than input.
RECURSIVE Pack(_)
Pack(d) ==
    IF d = <<>> THEN <<>>
    ELSE IF Len(d) >= 2 /\ d[1] = d[2]
         THEN <<2 + d[1]>> \o Pack(SubSeq(d, 3, Len(d)))
         ELSE <<d[1]>> \o Pack(Tail(d))

RECURSIVE Unpack(_)
Unpack(c) ==
    IF c = <<>> THEN <<>>
    ELSE IF c[1] >= 2 THEN <<c[1] - 2, c[1] - 2>> \o Unpack(Tail(c))
         ELSE <<c[1]>> \o Unpack(Tail(c))

FrameHeader(ctype) ==
    CASE ctype = "brotli" -> <<2>>
      [] ctype = "zstd" -> <<3>>
      [] ctype = "xz" -> <<3, 2>>
      [] OTHER -> <<>>

get_compressor_fn(ctype, data) ==
    IF ctype = "none" THEN data ELSE FrameHeader(ctype) \o Pack(data)

\* a stored object is decodable when it carries the whole frame
Decodable(ctype, c) ==
    \/ ctype = "none"
    \/ /\ Len(c) >= Len(FrameHeader(ctype))
       /\ SubSeq(c, 1, Len(FrameHeader(ctype))) = FrameHeader(ctype)

Decompress(ctype, c) ==
    IF ctype = "none" THEN c
    ELSE Unpack(SubSeq(c, Len(FrameHeader(ctype)) + 1, Len(c)))

\* ------------------------------------------------------- read_chunk_async
\* Fills a buffer holding `buf` up to `cap` bytes from the bytes `avail`
\* the stream still has; one read_buf delivers at most rs bytes (rs >= 1)
\* and never more than the room left. sawEof: a read returned 0, which
\* happens only when the loop ran with room left in the buffer.
RECURSIVE ReadLoop(_, _, _, _, _)
ReadLoop(avail, buf, cap, taken, rs) ==
    IF Len(buf) >= cap
    THEN [bytes |-> buf, taken |-> taken, sawEof |-> FALSE]
    ELSE LET n == Min(rs, Min(Len(avail), cap - Len(buf)))
         IN IF n = 0
            THEN [bytes |-> buf, taken |-> taken, sawEof |-> TRUE]
            ELSE ReadLoop(SubSeq(avail, n + 1, Len(avail)), buf \o SubSeq(avail, 1, n),
                          cap, taken + n, rs)

\* a fill that stops after its first read
ReadOnce(avail, buf, cap, rs) ==
    LET n == IF Len(buf) >= cap THEN 0 ELSE Min(rs, Min(Len(avail), cap - Len(buf)))
    IN [bytes |-> buf \o SubSeq(avail, 1, n), taken |-> n,
        sawEof |-> Len(buf) < cap /\ n = 0]

read_chunk_async(avail, buf, cap, rs) == ReadLoop(avail, buf, cap, 0, rs)

StreamHasherEager(passed, sawEof) ==
    Some([hash |-> Sha256(passed), size |-> Len(passed)])

\* the cell of a StreamHasher the bytes `passed` went through: the digest
\* and count of these bytes, set once a read of the stream returned 0
StreamHasher(passed, sawEof) ==
    IF sawEof THEN Some([hash |-> Sha256(passed), size |-> Len(passed)]) ELSE NoneV

\* CompressionStream drained by read_chunk_async into a buffer of capacity
\* max_size: the bytes read and the file hash cell
CompressionStream(ctype, data, max_size) ==
    LET r == read_chunk_async(get_compressor_fn(ctype, data), <<>>, max_size, max_size)
    IN [read |-> r.bytes, file_compute |-> StreamHasher(r.bytes, r.sawEof)]

\* ---------------------------------------------------------------- FastCDC
\* fastcdc::ronomon at small scale: gear table of two entries, a harder
\* mask before the centre and an easier one after it.
MaskS == 3
MaskL == 1
Gear(b) == IF b = 0 THEN 1 ELSE 2

CeilDiv(x, y) == (x + y - 1) \div y

CenterSize(avg, min, source_size) ==
    LET off0 == min + CeilDiv(min, 2)
        off == IF off0 > avg THEN avg ELSE off0
        size == avg - off
    IN IF size > source_size THEN source_size ELSE size

\* scans src from 0-based offset off to lim: <<found, offset after, hash>>
RECURSIVE Scan(_, _, _, _, _)
Scan(src, off, lim, hash, mask) ==
    IF off >= lim THEN <<FALSE, off, hash>>
    ELSE LET h == (hash \div 2) + Gear(src[off + 1])
         IN IF h % (mask + 1) = 0 THEN <<TRUE, off + 1, h>>
            ELSE Scan(src, off + 1, lim, h, mask)

Cut(src, source_offset, remaining, p, eof) ==
    IF remaining <= p.min_size
    THEN IF eof THEN remaining ELSE 0
    ELSE LET source_size == Min(remaining, p.max_size)
             len1 == source_offset + CenterSize(p.avg_size, p.min_size, source_size)
             len2 == source_offset + source_size
             s1 == Scan(src, source_offset + p.min_size, len1, 0, MaskS)
             s2 == Scan(src, s1[2], len2, s1[3], MaskL)
         IN IF s1[1] THEN s1[2] - source_offset
            ELSE IF s2[1] THEN s2[2] - source_offset
            ELSE IF ~eof /\ source_size < p.max_size THEN 0
            ELSE source_size

\* the iterator FastCDC::with_eof(src, ..): lengths of the chunks it yields
RECURSIVE FastCDC(_, _, _, _)
FastCDC(src, processed, p, eof) ==
    IF Len(src) - processed = 0 THEN <<>>
    ELSE LET n == Cut(src, processed, Len(src) - processed, p, eof)
         IN IF n = 0 THEN <<>>
            ELSE <<n>> \o FastCDC(src, processed + n, p, eof)

RECURSIVE SumSeq(_)
SumSeq(ns) == IF ns = <<>> THEN 0 ELSE Head(ns) + SumSeq(Tail(ns))

RECURSIVE SlicesToLength(_, _, _)
SlicesToLength(read, from, ns) ==
    IF ns = <<>> THEN <<>>
    ELSE <<SubSeq(read, from + 1, Head(ns))>>
         \o SlicesToLength(read, from + Head(ns), Tail(ns))

\* the slices read[offset .. offset+length] for the lengths ns, from `from`
RECURSIVE Slices(_, _, _)
Slices(read, from, ns) ==
    IF ns = <<>> THEN <<>>
    ELSE <<SubSeq(read, from + 1, from + Head(ns))>>
         \o Slices(read, from + Head(ns), Tail(ns))

\* ------------------------------------------------------------ chunk_stream
\* State of the generator: buf (bytes carried over), pos (bytes taken from
\* the input), queue (slices of the current FastCDC run not yet yielded),
\* eof (the local flag), st ("run", "ended" or "hung"), sawEof (the input
\* reported end of stream), rs (the most bytes one read of the captured
\* stream delivers).
ChunkerInit ==
    [buf |-> <<>>, pos |-> 0, queue |-> <<>>, eof |-> FALSE, st |-> "run",
     sawEof |-> FALSE, rs |-> 1]

\* chunk_stream over a stream that delivers at most rs bytes per read
ChunkerOver(rs) == [ChunkerInit EXCEPT !.rs = rs]

\* one pass of the loop body up to its first yield
ChunkerFill(c, input, p) ==
    LET r == read_chunk_async(SubSeq(input, c.pos + 1, Len(input)), c.buf, p.max_size,
                              c.rs)
        read == r.bytes
        eof == Len(read) < p.max_size
        ns == FastCDC(read, 0, p, eof)
        consumed == SumSeq(ns)
        saw == c.sawEof \/ r.sawEof
    IN IF read = <<>>
       THEN [c EXCEPT !.st = "ended", !.sawEof = saw]
       ELSE IF ns = <<>> /\ ~eof
       THEN \* nothing cut from a full buffer: the loop reads nothing more
            [c EXCEPT !.buf = read, !.pos = c.pos + r.taken, !.st = "hung",
                      !.sawEof = saw]
       ELSE [buf |-> IF eof THEN <<>> ELSE SubSeq(read, consumed + 1, Len(read)),
             pos |-> c.pos + r.taken,
             queue |-> Slices(read, 0, ns),
             eof |-> eof,
             st |-> "run",
             sawEof |-> saw,
             rs |-> c.rs]

\* chunks.next(): <<item, state after>>; item is Some(slice) or NoneV at
\* the end of the stream. A hung generator never returns.
ChunkerNext(c, input, p) ==
    LET f == IF c.queue = <<>> /\ c.st = "run"
             THEN (IF c.eof THEN [c EXCEPT !.st = "ended"] ELSE ChunkerFill(c, input, p))
             ELSE c
    IN IF f.queue # <<>>
       THEN <<Some(Head(f.queue)), [f EXCEPT !.queue = Tail(f.queue)]>>
       ELSE IF f.st = "run" /\ f.eof
       THEN <<NoneV, [f EXCEPT !.st = "ended"]>>
       ELSE <<NoneV, f>>

\* all slices chunk_stream yields for an input (NoneV when it hangs)
RECURSIVE ChunkAll(_, _, _)
ChunkAll(c, input, p) ==
    LET nx == ChunkerNext(c, input, p)
    IN IF IsSome(nx[1]) THEN <<Unwrap(nx[1])>> \o ChunkAll(nx[2], input, p)
       ELSE <<>>

\* ----------------------------------------------------------------- state
VARIABLES
    cfg,          \* server configuration (State.config)
    chunkFiles,   \* {root}/chunks: name -> content
    narFiles,     \* {root}/nars: name -> content
    upPc,         \* position of the upload handler
    upPath,       \* the path upload_path_new dispatched to
    reordered,    \* a task finished while an earlier one was still running
    upInfo,       \* the upload Request
    upBody,       \* the bytes of the PUT body after the preamble
    chunks,       \* the chunk_stream generator
    data,         \* the slice waiting for a permit
    futures,      \* the spawned chunk tasks, in spawn order
    permits,      \* free permits of upload_chunk_limit
    upRead,       \* unchunked path: the drained CompressionStream
    upNar,        \* the serialized UploadedNar being written
    upResp,       \* the response of the upload
    nUploads,     \* uploads started so far
    maxUp,        \* uploads allowed in this behaviour
    faults,       \* storage failures still to inject
    accepted      \* per store path hash, the archive last answered 200

\* the most bytes one read of a request's body stream delivers; a property
\* of the connection, never changed by the server
VARIABLE readSize

\* the PUT request being served: its headers and body as the client sent
\* them, the body items read while the upload info was parsed, and whether
\* the request got past the access gate to the handler
VARIABLE upReq

\* the upload served before the one being served, when it was answered 200:
\* its request, the keys it wrote and the storage it left
VARIABLE upPrev

\* the route and the path of the GET being served
VARIABLE getPath

\* an error a handler returned and the response it was turned into
VARIABLES srvError, srvResponse

storeVars == <<chunkFiles, narFiles, faults>>

StorePathHashes == {"sp1"}

\* --------------------------------------------------------------- manifest
UploadedChunk(file_hash, file_size, compression) ==
    [file_hash |-> file_hash, file_size |-> file_size, compression |-> compression]

UploadedNar(nar_hash, nar_size, cs, store_path) ==
    [nar_hash |-> nar_hash, nar_size |-> nar_size, chunks |-> cs,
     store_path |-> store_path]

\* serde_json::to_vec(&nar): a sequence of tokens, the chunks in order
Token(k, a, b, c) == [k |-> k, a |-> a, b |-> b, c |-> c]

to_vec(nar) ==
    <<Token("nar", nar.nar_hash, nar.nar_size, nar.store_path)>>
    \o [i \in 1..Len(nar.chunks) |->
          Token("chunk", nar.chunks[i].file_hash, nar.chunks[i].file_size,
                nar.chunks[i].compression)]
    \o <<Token("end", <<>>, 0, "")>>

\* serde_json::from_slice: NoneV on anything but a complete document
from_slice(bytes) ==
    IF /\ Len(bytes) >= 2
       /\ bytes[1].k = "nar"
       /\ bytes[Len(bytes)].k = "end"
       /\ \A i \in 2..(Len(bytes) - 1) : bytes[i].k = "chunk"
    THEN Some(UploadedNar(bytes[1].a, bytes[1].b,
                          [i \in 1..(Len(bytes) - 2) |->
                              UploadedChunk(bytes[i + 1].a, bytes[i + 1].b, bytes[i + 1].c)],
                          bytes[1].c))
    ELSE NoneV

\* ---------------------------------------------------------- LocalBackend
\* File::create: the file exists and is empty, whatever it held before
FileCreate(files, name) ==
    IF name \in DOMAIN files THEN [files EXCEPT ![name] = <<>>]
    ELSE (name :> <<>>) @@ files

\* io::copy that wrote the first n items of the stream
FileCopy(files, name, stream, n) == [files EXCEPT ![name] = SubSeq(stream, 1, n)]

\* ------------------------------------------------------ upload_path_new
UseUnchunkedLe(nar_size_threshold, nar_size) ==
    nar_size_threshold = 0 \/ nar_size <= nar_size_threshold

UseUnchunkedNoZero(nar_size_threshold, nar_size) == nar_size < nar_size_threshold

\* the dispatch test of upload_path_new
UseUnchunked(nar_size_threshold, nar_size) ==
    nar_size_threshold = 0 \/ nar_size < nar_size_threshold

\* the archive the handler receives: the body capped at nar_size bytes
Received == Take(upBody, upInfo.nar_size)

AllTasksDone == \A i \in 1..Len(futures) : futures[i].st \in {"ok", "err", "panic"}

Respond(kind) ==
    /\ upPc' = "done"
    /\ upResp' = kind

\* ------------------------------------------------------------------ error
\* an ErrorKind: the variant and the cause it wraps ("" when it wraps none)
ErrorKind(kind, cause) == [kind |-> kind, cause |-> cause]

\* ServerError::auth_error
auth_error == "InvalidToken"

\* the status of ErrorKind::InvalidToken
InvalidTokenStatus == 401

IntoClientsStorageOnly(e) ==
    IF e.kind = "StorageError" THEN ErrorKind("InternalServerError", "") ELSE e

\* ErrorKind::into_clients
into_clients(e) ==
    CASE e.kind = "StorageError" -> ErrorKind("InternalServerError", "")
      [] e.kind = "ManifestSerializationError" -> ErrorKind("InternalServerError", "")
      [] OTHER -> e

\* ErrorKind::name
name(e) ==
    CASE e.kind = "InternalServerError" -> "InternalServerError"
      [] e.kind = "NotFound" -> "NotFound"
      [] e.kind = "StorageError" -> "StorageError"
      [] e.kind = "RequestError" -> "RequestError"
      [] e.kind = "InvalidCompressionType" -> "InvalidCompressionType"
      [] e.kind = "ManifestSerializationError" -> "ManifestSerializationError"
      [] e.kind = "InvalidToken" -> "InvalidToken"

\* ErrorKind::http_status_code
http_status_code(e) ==
    CASE e.kind = "InternalServerError" -> 500
      [] e.kind = "NotFound" -> 404
      [] e.kind = "StorageError" -> 500
      [] e.kind = "RequestError" -> 400
      [] e.kind = "InvalidCompressionType" -> 400
      [] e.kind = "ManifestSerializationError" -> 400
      [] e.kind = "InvalidToken" -> InvalidTokenStatus

\* the Display of an ErrorKind: its text, then the cause where it has one
to_string(e) ==
    CASE e.kind = "InternalServerError" ->
            <<"The server encountered an internal error or misconfiguration.">>
      [] e.kind = "NotFound" -> <<"The URL you requested was not found.">>
      [] e.kind = "StorageError" -> <<"Storage error: ", e.cause>>
      [] e.kind = "RequestError" -> <<"General request error: ", e.cause>>
      [] e.kind = "InvalidCompressionType" ->
            <<"Invalid compression type \"", e.cause, "\".">>
      [] e.kind = "ManifestSerializationError" ->
            <<"Manifest serialization error: ", e.cause>>
      [] e.kind = "InvalidToken" -> <<"InvalidToken">>

\* ServerError::into_response: the status line and the JSON envelope
into_response(e) ==
    LET sanitized == into_clients(e)
        status_code == http_status_code(sanitized)
    IN [status |-> status_code,
        json |-> [code |-> status_code, message |-> to_string(sanitized),
                  error |-> name(sanitized)]]

\* the status of a response of the upload handler: Ok(Json(..)) is 200, a
\* panic is answered 500 by CatchPanicLayer, an error by into_response
StatusOf(kind) ==
    CASE kind = "Uploaded" -> 200
      [] kind = "none" -> 0
      [] kind = "Panic" -> 500
      [] OTHER -> into_response(ErrorKind(kind, "")).status

FuturesKept == futures

\* line 217: the tasks of a request start as an empty Vec
FuturesNew == <<>>

\* upload_path + upload_path_new: a request arrives and is dispatched
UploadPath(info, body) ==
    /\ upPc \in {"idle", "done"}
    /\ AllTasksDone
    /\ nUploads < maxUp
    /\ nUploads' = nUploads + 1
    /\ upInfo' = info
    /\ upBody' = body
    /\ upPc' = IF UseUnchunked(cfg.nar_size_threshold, info.nar_size)
               THEN "unchunked" ELSE "chunked"
    /\ upPath' = upPc'
    /\ reordered' = FALSE
    /\ chunks' = ChunkerOver(readSize)
    /\ data' = NoneV
    /\ futures' = FuturesNew
    /\ permits' = CONCURRENT_CHUNK_UPLOADS
    /\ upRead' = NoneV
    /\ upNar' = <<>>
    /\ upResp' = "none"
    /\ UNCHANGED <<cfg, maxUp, accepted, storeVars>>

\* ------------------------------------------------------------ upload_path
\* MAX_NAR_INFO_SIZE at the scale of the model, where the upload info
\* document is two items long
MAX_NAR_INFO_SIZE == 3

\* the body of a PUT: the items of a JSON document followed by archive bytes
Body(json, nar) == [json |-> json, nar |-> nar]
BodyLen(body) == Len(body.json) + Len(body.nar)
BodyTake(body, n) ==
    Body(Take(body.json, n),
         IF n > Len(body.json) THEN Take(body.nar, n - Len(body.json)) ELSE <<>>)
BodyDrop(body, n) ==
    IF n >= Len(body.json)
    THEN SubSeq(body.nar, n - Len(body.json) + 1, Len(body.nar))
    ELSE SubSeq(body.json, n + 1, Len(body.json)) \o body.nar

\* serde_json::to_vec(&Request)
RequestJson(info) ==
    <<Token("request", info.nar_hash, info.nar_size,
            <<info.store_path_hash, info.store_path>>),
      Token("end", <<>>, 0, "")>>

\* StorePathHash::new at the scale of the model
StorePathHashNew(hash) == IF hash \in StorePathHashes THEN Some(hash) ELSE NoneV

\* serde_json::from_slice::<Request>: NoneV on anything but one complete
\* document of a Request whose fields deserialize
RequestFromSlice(pre) ==
    IF /\ pre.nar = <<>>
       /\ Len(pre.json) = 2
       /\ pre.json[1].k = "request"
       /\ pre.json[2].k = "end"
       /\ IsSome(StorePathHashNew(pre.json[1].c[1]))
    THEN Some([store_path_hash |-> pre.json[1].c[1], store_path |-> pre.json[1].c[2],
               nar_hash |-> pre.json[1].a, nar_size |-> pre.json[1].b])
    ELSE NoneV

\* HeaderValue::to_str: NoneV when a byte is not visible ASCII
to_str(v) == IF \E i \in 1..Len(v) : v[i] = "0xff" THEN NoneV ELSE Some(v)

\* str::parse::<usize>: an optional "+", then one decimal digit or more
\* (the header values of the model are too short to overflow a usize)
parse(s) ==
    LET d == IF s # <<>> /\ s[1] = "+" THEN Tail(s) ELSE s
        IsDigit(c) == \E n \in 0..9 : ToString(n) = c
        value[i \in 0..Len(d)] ==
            IF i = 0 THEN 0
            ELSE 10 * value[i - 1] + (CHOOSE n \in 0..9 : ToString(n) = d[i])
    IN IF d = <<>> \/ \E i \in 1..Len(d) : ~IsDigit(d[i]) THEN NoneV
       ELSE Some(value[Len(d)])

NeverTooLarge(preamble_size) == FALSE

\* the size test made before the preamble is read
TooLarge(preamble_size) == preamble_size > MAX_NAR_INFO_SIZE

\* the block of upload_path that computes upload_info: the Request, or
\* NoneV for the RequestError, and the number of body items it read
UploadInfo(req, rs) ==
    IF IsSome(req.preamble_size)
    THEN LET str == to_str(Unwrap(req.preamble_size))
             n == IF IsSome(str) THEN parse(Unwrap(str)) ELSE NoneV
         IN IF ~IsSome(n) THEN [info |-> NoneV, read |-> 0]
            ELSE IF TooLarge(Unwrap(n)) THEN [info |-> NoneV, read |-> 0]
            ELSE LET got == read_chunk_async([i \in 1..BodyLen(req.body) |-> i],
                                             <<>>, Unwrap(n), rs).taken
                 IN IF got # Unwrap(n) THEN [info |-> NoneV, read |-> got]
                    ELSE [info |-> RequestFromSlice(BodyTake(req.body, got)),
                          read |-> got]
    ELSE IF IsSome(req.nar_info)
    THEN [info |-> RequestFromSlice(Body(Unwrap(req.nar_info), <<>>)), read |-> 0]
    ELSE [info |-> NoneV, read |-> 0]

\* upload_path: the upload info is parsed, then upload_path_new takes over
upload_path(req) ==
    /\ upPc \in {"idle", "done"}
    /\ AllTasksDone
    /\ nUploads < maxUp
    /\ \E u \in {UploadInfo(req, readSize)} :
       /\ upReq' = [req |-> req, read |-> u.read, handled |-> TRUE]
       /\ IF IsSome(u.info)
          THEN \E info \in {Unwrap(u.info)}, rest \in {BodyDrop(req.body, u.read)} :
                  UploadPath(info, rest)
          ELSE /\ nUploads' = nUploads + 1
               /\ Respond("RequestError")
               /\ UNCHANGED <<cfg, maxUp, accepted, storeVars, upPath, reordered, upInfo,
                              upBody, chunks, data, futures, permits, upRead, upNar>>

\* ------------------------------------------------------------- access gate
AlwaysSecret(c) == Some("k1")

\* state.config.token_hs256_secret: an Option, None when the configuration
\* record has no such field
token_hs256_secret(c) ==
    IF "token_hs256_secret" \in DOMAIN c THEN Some(c.token_hs256_secret) ELSE NoneV

\* TypedHeader<Authorization<Bearer>>: the token of "Bearer <token>", NoneV
\* for a missing header, another scheme or no token
Bearer(authorization) ==
    IF /\ IsSome(authorization)
       /\ Len(Unwrap(authorization)) = 2
       /\ Unwrap(authorization)[1] = "Bearer"
    THEN Some(Unwrap(authorization)[2])
    ELSE NoneV

VerifyAny(key, token) == TRUE

\* key.verify_token::<NoCustomClaims>(token, None): the algorithm, the
\* signature and the validity period
verify_token(key, token) == token.alg = "HS256" /\ token.key = key /\ ~token.expired

\* apply_auth: "next" when the request goes on to the handler, or the
\* kind of the error answered in its place
apply_auth(secret, authorization) ==
    IF IsSome(secret)
    THEN IF ~IsSome(Bearer(authorization)) THEN "InvalidToken"
         ELSE IF ~verify_token(Unwrap(secret), Unwrap(Bearer(authorization)))
              THEN auth_error
              ELSE "next"
    ELSE "next"

\* the RequireAuth extractor layered over the API routes
RequireAuth(secret, authorization) == apply_auth(secret, authorization)

\* PUT /_api/v1/upload-path through the layers of run_api_server
\* the chunk keys the upload being served has written in full
WrittenChunks ==
    IF upPath = "unchunked"
    THEN IF upNar # <<>> THEN {ToTypedBase32(Unwrap(upRead).file_compute[1].hash)} ELSE {}
    ELSE {ToTypedBase32(CompressionStream(cfg.compression, futures[i].data,
                                          cfg.max_size).file_compute[1].hash) :
             i \in {j \in 1..Len(futures) : futures[j].st = "ok"}}

\* a request without headers and without body
NoRequest ==
    [authorization |-> NoneV, preamble_size |-> NoneV, nar_info |-> NoneV,
     body |-> Body(<<>>, <<>>)]

\* no upload was answered 200 just before
NoOutcome ==
    [req |-> NoRequest, resp |-> "none", chunks |-> {}, nar |-> {}, chunkFiles |-> <<>>,
     narFiles |-> <<>>, faults |-> 0]

\* the upload being served, as it stands
UploadOutcome ==
    [req |-> upReq.req, resp |-> upResp, chunks |-> WrittenChunks,
     nar |-> IF upPc = "done" /\ upResp = "Uploaded" THEN {upInfo.store_path_hash} ELSE {},
     chunkFiles |-> chunkFiles, narFiles |-> narFiles, faults |-> faults]

PutUploadPath(req) ==
    /\ upPc \in {"idle", "done"}
    /\ AllTasksDone
    /\ nUploads < maxUp
    /\ upPrev' = IF upResp = "Uploaded" THEN UploadOutcome ELSE NoOutcome
    /\ \E gate \in {RequireAuth(token_hs256_secret(cfg), req.authorization)} :
          IF gate = "next"
          THEN upload_path(req)
          ELSE /\ upReq' = [req |-> req, read |-> 0, handled |-> FALSE]
               /\ nUploads' = nUploads + 1
               /\ Respond(gate)
               /\ UNCHANGED <<cfg, maxUp, accepted, storeVars, upPath, reordered, upInfo,
                              upBody, chunks, data, futures, permits, upRead, upNar>>

\* a request of a client that follows the protocol: the upload info as the
\* preamble of the body, its size in the header, no credentials
PreambleRequest(info, nar) ==
    [NoRequest EXCEPT !.preamble_size = Some(<<ToString(Len(RequestJson(info)))>>),
                      !.body = Body(RequestJson(info), nar)]

BadSizeOnly(info, nar_hash, nar_size) == info.nar_size # nar_size

BadHashOnly(info, nar_hash, nar_size) == info.nar_hash # nar_hash

\* the archive hash and size test of both paths
BadHashOrSize(info, nar_hash, nar_size) ==
    info.nar_hash # nar_hash \/ info.nar_size # nar_size

\* ------------------------------------------------ upload_path_new_unchunked
\* lines 137-158: drain the compressed body, read both cells, check
UnchunkedRead ==
    /\ UNCHANGED reordered
    /\ upPc = "unchunked"
    /\ LET cs == CompressionStream(cfg.compression, Received, cfg.max_size)
       IN IF ~IsSome(cs.file_compute)
          THEN \* a cell is empty: unwrap panics
               Respond("Panic") /\ UNCHANGED upRead
          ELSE IF BadHashOrSize(upInfo, Sha256(Received), Len(Received))
          THEN Respond("RequestError") /\ UNCHANGED upRead
          ELSE upPc' = "u_create" /\ upRead' = Some(cs) /\ UNCHANGED upResp
    /\ UNCHANGED <<cfg, maxUp, upPath, upInfo, upBody, chunks, data, futures, permits, upNar,
                   nUploads, accepted, storeVars>>

UnchunkedKey == ToTypedBase32(Unwrap(upRead).file_compute[1].hash)

\* backend.upload_chunk, first half: File::create
UnchunkedCreate ==
    /\ UNCHANGED reordered
    /\ upPc = "u_create"
    /\ \/ /\ chunkFiles' = FileCreate(chunkFiles, UnchunkedKey)
          /\ upPc' = "u_copy"
          /\ UNCHANGED <<upResp, faults>>
       \/ /\ faults > 0
          /\ faults' = faults - 1
          /\ Respond("StorageError")
          /\ UNCHANGED chunkFiles
    /\ UNCHANGED <<cfg, maxUp, upPath, narFiles, upInfo, upBody, chunks, data, futures, permits,
                   upRead, upNar, nUploads, accepted>>

\* the manifest of the unchunked path: exactly one chunk
UnchunkedNar ==
    LET fc == Unwrap(upRead).file_compute[1]
    IN UploadedNar(Sha256(Received), Len(Received),
                   <<UploadedChunk(fc.hash, fc.size, cfg.compression)>>,
                   upInfo.store_path)

\* backend.upload_chunk, second half: io::copy
UnchunkedCopy ==
    /\ UNCHANGED reordered
    /\ upPc = "u_copy"
    /\ LET read == Unwrap(upRead).read
       IN \/ /\ chunkFiles' = FileCopy(chunkFiles, UnchunkedKey, read, Len(read))
             /\ upNar' = to_vec(UnchunkedNar)
             /\ upPc' = "n_create"
             /\ UNCHANGED <<upResp, faults>>
          \/ /\ faults > 0
             /\ faults' = faults - 1
             /\ \E n \in 0..(Len(read) - 1) :
                   chunkFiles' = FileCopy(chunkFiles, UnchunkedKey, read, n)
             /\ Respond("StorageError")
             /\ UNCHANGED upNar
    /\ UNCHANGED <<cfg, maxUp, upPath, narFiles, upInfo, upBody, chunks, data, futures, permits,
                   upRead, nUploads, accepted>>

\* ----------------------------------------------------- manifest write
\* backend.upload_nar, first half: File::create
NarCreate ==
    /\ UNCHANGED reordered
    /\ upPc = "n_create"
    /\ \/ /\ narFiles' = FileCreate(narFiles, upInfo.store_path_hash)
          /\ upPc' = "n_copy"
          /\ UNCHANGED <<upResp, faults>>
       \/ /\ faults > 0
          /\ faults' = faults - 1
          /\ Respond("StorageError")
          /\ UNCHANGED narFiles
    /\ UNCHANGED <<cfg, maxUp, upPath, chunkFiles, upInfo, upBody, chunks, data, futures, permits,
                   upRead, upNar, nUploads, accepted>>

\* backend.upload_nar, second half: io::copy, then the 200 response
NarCopy ==
    /\ UNCHANGED reordered
    /\ upPc = "n_copy"
    /\ \/ /\ narFiles' = FileCopy(narFiles, upInfo.store_path_hash, upNar, Len(upNar))
          /\ Respond("Uploaded")
          /\ accepted' = [accepted EXCEPT ![upInfo.store_path_hash] = Some(Received)]
          /\ UNCHANGED faults
       \/ /\ faults > 0
          /\ faults' = faults - 1
          /\ \E n \in 0..(Len(upNar) - 1) :
                narFiles' = FileCopy(narFiles, upInfo.store_path_hash, upNar, n)
          /\ Respond("StorageError")
          /\ UNCHANGED accepted
    /\ UNCHANGED <<cfg, maxUp, upPath, chunkFiles, upInfo, upBody, chunks, data, futures, permits,
                   upRead, upNar, nUploads>>

\* -------------------------------------------------- upload_path_new_chunked
ChunkingParams ==
    [min_size |-> cfg.min_size, avg_size |-> cfg.avg_size, max_size |-> cfg.max_size]

\* line 219: chunks.next().await. The loop asks for a slice only when no
\* slice is waiting for a permit.
ChunkNext ==
    /\ UNCHANGED reordered
    /\ upPc = "chunked"
    /\ data = NoneV
    /\ LET nx == ChunkerNext(chunks, Received, ChunkingParams)
       IN /\ nx[2].st # "hung"
          /\ chunks' = nx[2]
          /\ IF IsSome(nx[1])
             THEN data' = nx[1] /\ upPc' = "chunked"
             ELSE data' = NoneV /\ upPc' = "c_check"
    /\ UNCHANGED <<cfg, maxUp, upPath, upInfo, upBody, futures, permits, upRead, upNar, upResp,
                   nUploads, accepted, storeVars>>

\* line 220: the body stream fails; the handler returns, the spawned
\* tasks keep running
ChunkReadError ==
    /\ UNCHANGED reordered
    /\ upPc = "chunked"
    /\ data = NoneV
    /\ chunks.st = "run"
    /\ ~chunks.sawEof
    /\ Respond("RequestError")
    /\ UNCHANGED <<cfg, maxUp, upPath, upInfo, upBody, chunks, data, futures, permits, upRead,
                   upNar, nUploads, accepted, storeVars>>

\* the task a slice is spawned as
NewTask(slice) == [data |-> slice, st |-> "spawned", permit |-> TRUE, out |-> NoneV]

AlwaysAcquire(free) == TRUE

\* acquire_owned succeeds only while a permit is free
CanAcquire(free) == free > 0

\* lines 226-258: acquire a permit, then spawn the task of the slice
AcquireAndSpawn ==
    /\ UNCHANGED reordered
    /\ upPc = "chunked"
    /\ IsSome(data)
    /\ CanAcquire(permits)
    /\ permits' = permits - 1
    /\ futures' = Append(futures, NewTask(Unwrap(data)))
    /\ data' = NoneV
    /\ UNCHANGED <<cfg, maxUp, upPath, upPc, upInfo, upBody, chunks, upRead, upNar, upResp,
                   nUploads, accepted, storeVars>>

TaskStream(i) == CompressionStream(cfg.compression, futures[i].data, cfg.max_size)
TaskKey(i) == ToTypedBase32(TaskStream(i).file_compute[1].hash)

\* a task ends: its state, its result, its permit back to the semaphore
Finish(i, st, out) ==
    /\ futures' = [futures EXCEPT ![i] = [@ EXCEPT !.st = st, !.out = out,
                                                   !.permit = FALSE]]
    /\ permits' = permits + 1
    /\ reordered' = (reordered \/ \E j \in 1..(i - 1) : futures[j].permit)

\* lines 236-246: the task drains its CompressionStream, unwraps the file
\* hash cell and has the backend create the chunk file
TaskCreate(i) ==
    /\ futures[i].st = "spawned"
    /\ IF ~IsSome(TaskStream(i).file_compute)
       THEN Finish(i, "panic", NoneV) /\ UNCHANGED storeVars
       ELSE \/ /\ chunkFiles' = FileCreate(chunkFiles, TaskKey(i))
               /\ futures' = [futures EXCEPT ![i].st = "created"]
               /\ UNCHANGED <<permits, narFiles, faults, reordered>>
            \/ /\ faults > 0
               /\ faults' = faults - 1
               /\ Finish(i, "err", NoneV)
               /\ UNCHANGED <<chunkFiles, narFiles>>
    /\ UNCHANGED <<cfg, maxUp, upPath, upPc, upInfo, upBody, chunks, data, upRead, upNar, upResp,
                   nUploads, accepted>>

\* lines 245-256: io::copy of the chunk, then drop(permit) and Ok(chunk)
TaskCopy(i) ==
    /\ futures[i].st = "created"
    /\ LET cs == TaskStream(i)
       IN \/ /\ chunkFiles' = FileCopy(chunkFiles, TaskKey(i), cs.read, Len(cs.read))
             /\ Finish(i, "ok", Some(UploadedChunk(cs.file_compute[1].hash,
                                                   cs.file_compute[1].size,
                                                   cfg.compression)))
             /\ UNCHANGED faults
          \/ /\ faults > 0
             /\ faults' = faults - 1
             /\ \E n \in 0..(Len(cs.read) - 1) :
                   chunkFiles' = FileCopy(chunkFiles, TaskKey(i), cs.read, n)
             /\ Finish(i, "err", NoneV)
    /\ UNCHANGED <<cfg, maxUp, upPath, narFiles, upPc, upInfo, upBody, chunks, data, upRead,
                   upNar, upResp, nUploads, accepted>>

\* lines 235-257 as one step: the whole task, when nothing interleaves
\* between the creation of the chunk file and its copy
TaskRun(i) ==
    /\ futures[i].st = "spawned"
    /\ LET cs == TaskStream(i)
       IN IF ~IsSome(cs.file_compute)
          THEN Finish(i, "panic", NoneV) /\ UNCHANGED chunkFiles
          ELSE /\ chunkFiles' = FileCopy(FileCreate(chunkFiles, TaskKey(i)), TaskKey(i),
                                         cs.read, Len(cs.read))
               /\ Finish(i, "ok", Some(UploadedChunk(cs.file_compute[1].hash,
                                                     cs.file_compute[1].size,
                                                     cfg.compression)))
    /\ UNCHANGED <<cfg, maxUp, upPath, narFiles, faults, upPc, upInfo, upBody, chunks, data,
                   upRead, upNar, upResp, nUploads, accepted>>

\* nar_compute of the chunked path: set once the input reported its end
ChunkedNarCompute == StreamHasher(Take(Received, chunks.pos), chunks.sawEof)

\* lines 261-267: the archive hash and size check after the loop
ChunkedCheck ==
    /\ UNCHANGED reordered
    /\ upPc = "c_check"
    /\ IF ~IsSome(ChunkedNarCompute)
       THEN Respond("Panic")
       ELSE IF BadHashOrSize(upInfo, ChunkedNarCompute[1].hash, ChunkedNarCompute[1].size)
       THEN Respond("RequestError")
       ELSE upPc' = "c_join" /\ UNCHANGED upResp
    /\ UNCHANGED <<cfg, maxUp, upPath, upInfo, upBody, chunks, data, futures, permits, upRead,
                   upNar, nUploads, accepted, storeVars>>

JoinedReversed(fs) == [i \in 1..Len(fs) |-> Unwrap(fs[Len(fs) + 1 - i].out)]

\* the UploadedChunks of the tasks as join_all returns them: in the order
\* of the futures vector
JoinedChunks(fs) == [i \in 1..Len(fs) |-> Unwrap(fs[i].out)]

\* the first task, in vector order, that did not return Ok
FirstBad(fs) ==
    LET bad == {i \in 1..Len(fs) : fs[i].st # "ok"}
    IN IF bad = {} THEN 0 ELSE CHOOSE i \in bad : \A j \in bad : i <= j

\* may the manifest be written: every task returned Ok
JoinOk(fs) == FirstBad(fs) = 0

\* lines 269-291: join_all, collect, build the manifest
ChunkedJoin ==
    /\ UNCHANGED reordered
    /\ upPc = "c_join"
    /\ AllTasksDone
    /\ IF JoinOk(futures)
       THEN /\ upNar' = to_vec(UploadedNar(ChunkedNarCompute[1].hash,
                                           ChunkedNarCompute[1].size,
                                           JoinedChunks(futures), upInfo.store_path))
            /\ upPc' = "n_create"
            /\ UNCHANGED upResp
       ELSE /\ Respond(IF futures[FirstBad(futures)].st = "panic"
                       THEN "Panic" ELSE "StorageError")
            /\ UNCHANGED upNar
    /\ UNCHANGED <<cfg, maxUp, upPath, upInfo, upBody, chunks, data, futures, permits, upRead,
                   nUploads, accepted, storeVars>>

\* ------------------------------------------------------------ merge_chunks
VARIABLES
    mChunks,      \* the queue of chunk descriptors not yet opened
    streams,      \* the queue of JoinHandles of the spawned opens
    mAwait,       \* the JoinHandle popped from streams and awaited
    mStream,      \* the items left in the stream being drained
    mOut,         \* the items the merged stream has yielded
    mPc,          \* position of the merge_chunks generator
    num_prefetch, \* its num_prefetch argument
    mOpened,      \* ids of the descriptors whose open was spawned, in order
    mFaults,      \* open or frame failures still to inject
    mQueue0       \* the descriptor queue merge_chunks was called with

mergeVars == <<mChunks, streams, mAwait, mStream, mOut, mPc, num_prefetch, mOpened,
               mFaults, mQueue0>>

\* a stream item, Result<Bytes, E>
OkItem(bytes) == [err |-> FALSE, bytes |-> bytes]
ErrItem == [err |-> TRUE, bytes |-> <<>>]

\* ReaderStream over an opened file: frames of at most ReaderFrame bytes
ReaderFrame == 2
RECURSIVE ReaderStream(_)
ReaderStream(content) ==
    IF content = <<>> THEN <<>>
    ELSE <<OkItem(Take(content, ReaderFrame))>>
         \o ReaderStream(SubSeq(content, ReaderFrame + 1, Len(content)))

\* A descriptor is either a stored chunk (get_nar) or a ready made list of
\* frames (the streamer of test_merge_chunks).
ChunkDesc(id, chunk) == [id |-> id, chunk |-> Some(chunk), frames |-> <<>>]
FrameDesc(id, frames) == [id |-> id, chunk |-> NoneV, frames |-> frames]

\* does the streamer's future resolve to Ok for this descriptor
StreamerOk(desc) ==
    IsSome(desc.chunk) => ToTypedBase32(Unwrap(desc.chunk).file_hash) \in DOMAIN chunkFiles

\* the items of the stream the streamer opened
StreamerItems(desc) ==
    IF IsSome(desc.chunk)
    THEN ReaderStream(chunkFiles[ToTypedBase32(Unwrap(desc.chunk).file_hash)])
    ELSE desc.frames

\* the JoinHandle of spawn(streamer(chunk, ..))
SpawnOpen(desc) == [desc |-> desc, st |-> "running"]

PopBack(ss) == <<ss[Len(ss)], SubSeq(ss, 1, Len(ss) - 1)>>

\* line 133: streams.pop_front(), <<the handle, the rest of the queue>>
PopFront(ss) == <<Head(ss), Tail(ss)>>

PrefetchAll(queued, prefetch, left) == left

PrefetchOneMore(queued, prefetch, left) ==
    IF queued <= prefetch THEN Min(prefetch + 1 - queued, left) ELSE 0

\* lines 141-148: how many opens the prefetch loop spawns
PrefetchCount(queued, prefetch, left) ==
    IF queued < prefetch THEN Min(prefetch - queued, left) ELSE 0

NothingInFlight(cs, ss) == ss = <<>>

ChunksEmpty(cs, ss) == cs = <<>>

\* line 150: the exit test of the loop
MergeFinished(cs, ss) == cs = <<>> /\ ss = <<>>

\* lines 133-153 between two awaits: the prefetch loop, the exit test and
\* the pop of the next JoinHandle. With nothing to pop and descriptors
\* left (num_prefetch = 0) the loop spins without ever yielding.
MergeAdvance ==
    /\ \/ mPc = "start"
       \/ mPc = "drain" /\ mStream = <<>>
    /\ LET n == PrefetchCount(Len(streams), num_prefetch, Len(mChunks))
           opened == [i \in 1..n |-> SpawnOpen(mChunks[i])]
           ss == streams \o opened
           cs == SubSeq(mChunks, n + 1, Len(mChunks))
       IN /\ mOpened' = mOpened \o [i \in 1..n |-> mChunks[i].id]
          /\ mChunks' = cs
          /\ IF MergeFinished(cs, ss)
             THEN mPc' = "done" /\ streams' = ss /\ mAwait' = NoneV
             ELSE IF ss = <<>>
             THEN mPc' = "spin" /\ streams' = ss /\ mAwait' = NoneV
             ELSE mPc' = "await" /\ streams' = PopFront(ss)[2]
                  /\ mAwait' = Some(PopFront(ss)[1])
    /\ mStream' = <<>>
    /\ UNCHANGED <<mOut, num_prefetch, mFaults, mQueue0>>

\* a spawned open still in the queue completes
OpenDone(j) ==
    /\ j \in 1..Len(streams)
    /\ streams[j].st = "running"
    /\ \/ /\ StreamerOk(streams[j].desc)
          /\ streams' = [streams EXCEPT ![j].st = "ok"]
          /\ UNCHANGED mFaults
       \/ /\ ~StreamerOk(streams[j].desc)
          /\ streams' = [streams EXCEPT ![j].st = "err"]
          /\ UNCHANGED mFaults
       \/ /\ mFaults > 0
          /\ mFaults' = mFaults - 1
          /\ streams' = [streams EXCEPT ![j].st = "err"]
    /\ UNCHANGED <<mChunks, mAwait, mStream, mOut, mPc, num_prefetch, mOpened, mQueue0>>

\* the awaited open completes
AwaitedOpenDone ==
    /\ IsSome(mAwait)
    /\ Unwrap(mAwait).st = "running"
    /\ \/ /\ StreamerOk(Unwrap(mAwait).desc)
          /\ mAwait' = Some([Unwrap(mAwait) EXCEPT !.st = "ok"])
          /\ UNCHANGED mFaults
       \/ /\ ~StreamerOk(Unwrap(mAwait).desc)
          /\ mAwait' = Some([Unwrap(mAwait) EXCEPT !.st = "err"])
          /\ UNCHANGED mFaults
       \/ /\ mFaults > 0
          /\ mFaults' = mFaults - 1
          /\ mAwait' = Some([Unwrap(mAwait) EXCEPT !.st = "err"])
    /\ UNCHANGED <<mChunks, streams, mStream, mOut, mPc, num_prefetch, mOpened, mQueue0>>

\* line 134: stream.await.unwrap()? returns
MergeAwait ==
    /\ mPc = "await"
    /\ Unwrap(mAwait).st # "running"
    /\ IF Unwrap(mAwait).st = "ok"
       THEN /\ mStream' = StreamerItems(Unwrap(mAwait).desc)
            /\ mPc' = "drain"
            /\ UNCHANGED mOut
       ELSE /\ mOut' = Append(mOut, ErrItem)
            /\ mPc' = "failed"
            /\ UNCHANGED mStream
    /\ mAwait' = NoneV
    /\ UNCHANGED <<mChunks, streams, num_prefetch, mOpened, mFaults, mQueue0>>

MergeYieldOn ==
    /\ mPc = "drain"
    /\ mStream # <<>>
    /\ \/ /\ ~Head(mStream).err
          /\ mOut' = Append(mOut, Head(mStream))
          /\ UNCHANGED mFaults
       \/ /\ Head(mStream).err \/ mFaults > 0
          /\ mFaults' = IF Head(mStream).err THEN mFaults ELSE mFaults - 1
          /\ mOut' = Append(mOut, ErrItem)
    /\ mStream' = Tail(mStream)
    /\ UNCHANGED <<mChunks, streams, mAwait, mPc, num_prefetch, mOpened, mQueue0>>

\* lines 135-138: the next item of the stream being drained is yielded;
\* an error item ends the merged stream
MergeYield ==
    /\ mPc = "drain"
    /\ mStream # <<>>
    /\ \/ /\ ~Head(mStream).err
          /\ mOut' = Append(mOut, Head(mStream))
          /\ mStream' = Tail(mStream)
          /\ UNCHANGED <<mPc, mFaults>>
       \/ /\ Head(mStream).err \/ mFaults > 0
          /\ mFaults' = IF Head(mStream).err THEN mFaults ELSE mFaults - 1
          /\ mOut' = Append(mOut, ErrItem)
          /\ mPc' = "failed"
          /\ UNCHANGED mStream
    /\ UNCHANGED <<mChunks, streams, mAwait, num_prefetch, mOpened, mQueue0>>

MergeNext ==
    \/ MergeAdvance
    \/ \E j \in 1..Len(streams) : OpenDone(j)
    \/ AwaitedOpenDone
    \/ MergeAwait
    \/ MergeYield

\* the bytes of the items a stream yielded
RECURSIVE BytesOf(_)
BytesOf(items) ==
    IF items = <<>> THEN <<>>
    ELSE (IF Head(items).err THEN <<>> ELSE Head(items).bytes) \o BytesOf(Tail(items))

MergeIdle ==
    /\ mChunks = <<>>
    /\ streams = <<>>
    /\ mAwait = NoneV
    /\ mStream = <<>>
    /\ mOut = <<>>
    /\ mPc = "idle"
    /\ num_prefetch = NUM_PREFETCH
    /\ mOpened = <<>>
    /\ mFaults = 0
    /\ mQueue0 = <<>>

\* ------------------------------------------------------------------ get_nar
VARIABLES
    getPc,        \* position of the download handler
    getHash,      \* the store path hash asked for
    getNar,       \* the manifest it loaded
    getResp,      \* the kind of its response
    getBody       \* the body bytes it delivered

getVars == <<getPc, getHash, getNar, getResp, getBody>>

\* download_nar, read_to_end and serde_json::from_slice of the manifest
LoadNar(h) ==
    IF h \in DOMAIN narFiles THEN from_slice(narFiles[h]) ELSE NoneV

\* lines 170-237: load the manifest, then either open the single chunk or
\* hand the chunk list to merge_chunks
GetNar(h) ==
    /\ getPc = "idle"
    /\ getHash' = h
    /\ getNar' = LoadNar(h)
    /\ getBody' = <<>>
    /\ IF ~IsSome(LoadNar(h))
       THEN getPc' = "done" /\ getResp' = "StorageError" /\ UNCHANGED mergeVars
       ELSE LET nar == Unwrap(LoadNar(h))
            IN IF Len(nar.chunks) = 1
               THEN /\ IF ToTypedBase32(nar.chunks[1].file_hash) \in DOMAIN chunkFiles
                       THEN getPc' = "single" /\ getResp' = "Ok"
                       ELSE getPc' = "done" /\ getResp' = "StorageError"
                    /\ UNCHANGED mergeVars
               ELSE /\ getPc' = "merge"
                    /\ getResp' = "Ok"
                    /\ mChunks' = [i \in 1..Len(nar.chunks) |-> ChunkDesc(i, nar.chunks[i])]
                    /\ mQueue0' = mChunks'
                    /\ mPc' = "start"
                    /\ num_prefetch' = NUM_PREFETCH
                    /\ UNCHANGED <<streams, mAwait, mStream, mOut, mOpened, mFaults>>

\* lines 199-209: the single chunk is streamed as the body
GetSingle ==
    /\ getPc = "single"
    /\ getBody' = BytesOf(ReaderStream(
                      chunkFiles[ToTypedBase32(Unwrap(getNar).chunks[1].file_hash)]))
    /\ getPc' = "done"
    /\ UNCHANGED <<getHash, getNar, getResp, mergeVars>>

\* lines 236-238: the merged stream is the body; it ends when the stream
\* ends, also after an error item
GetMerged ==
    /\ getPc = "merge"
    /\ mPc \in {"done", "failed"}
    /\ getBody' = BytesOf(mOut)
    /\ getResp' = IF mPc = "failed" THEN "Aborted" ELSE "Ok"
    /\ getPc' = "done"
    /\ UNCHANGED <<getHash, getNar, mergeVars>>

\* path.splitn(2, '.'): the path as it is, or what is before and what is
\* after its first "."
splitn(path) ==
    IF \E i \in 1..Len(path) : path[i] = "."
    THEN LET i == CHOOSE i \in 1..Len(path) :
                      path[i] = "." /\ \A j \in 1..(i - 1) : path[j] # "."
         IN <<SubSeq(path, 1, i - 1), SubSeq(path, i + 1, Len(path))>>
    ELSE <<path>>

\* binary_cache.rs 96-106 and 156-166: the store path hash of the path, or
\* the kind of the error. A hash is one item of a path of the model: no run
\* of several items, or of none, is a string StorePathHash::new accepts.
PathHash(path, suffix) ==
    LET components == splitn(path)
    IN IF Len(components) # 2 THEN [hash |-> NoneV, err |-> "NotFound"]
       ELSE IF components[2] # <<suffix>> THEN [hash |-> NoneV, err |-> "NotFound"]
       ELSE IF \/ Len(components[1]) # 1
               \/ ~IsSome(StorePathHashNew(components[1][1]))
            THEN [hash |-> NoneV, err |-> "RequestError"]
            ELSE [hash |-> Some(components[1][1]), err |-> "none"]

\* a GET handler returns Err(kind)
GetFail(kind) ==
    /\ getPc' = "done"
    /\ getResp' = kind
    /\ getNar' = NoneV
    /\ getBody' = <<>>
    /\ UNCHANGED <<getHash, mergeVars>>

\* GET /nar/{path}
get_nar(path) ==
    /\ getPc = "idle"
    /\ getPath' = [route |-> "nar", path |-> path]
    /\ \E p \in {PathHash(path, "nar")} :
          IF IsSome(p.hash) THEN GetNar(Unwrap(p.hash)) ELSE GetFail(p.err)

\* GET and HEAD /{path}: the narinfo of a stored manifest; its text is not
\* part of the model
get_store_path_info(path) ==
    /\ getPc = "idle"
    /\ getPath' = [route |-> "narinfo", path |-> path]
    /\ \E p \in {PathHash(path, "narinfo")} :
          IF ~IsSome(p.hash) THEN GetFail(p.err)
          ELSE /\ getHash' = Unwrap(p.hash)
               /\ getNar' = LoadNar(Unwrap(p.hash))
               /\ getBody' = <<>>
               /\ getPc' = "done"
               /\ getResp' = IF IsSome(LoadNar(Unwrap(p.hash))) THEN "Ok" ELSE "StorageError"
               /\ UNCHANGED mergeVars

GetIdle ==
    /\ getPc = "idle"
    /\ getHash = "sp1"
    /\ getNar = NoneV
    /\ getResp = "none"
    /\ getBody = <<>>

GetNext ==
    \/ \E h \in StorePathHashes : GetNar(h)
    \/ GetSingle
    \/ GetMerged

\* ------------------------------------------------------------ nix_base32
VARIABLES
    b32Pc,     \* position of the caller: start, encoded, decoded
    b32Bytes,  \* the byte string handed to to_nix_base32
    b32Text,   \* what to_nix_base32 returned
    b32Back    \* what from_nix_base32 returned for that text

b32Vars == <<b32Pc, b32Bytes, b32Text, b32Back>>

BASE32_CHARS ==
    <<"0", "1", "2", "3", "4", "5", "6", "7", "8", "9", "a", "b", "c", "d", "f", "g", "h",
      "i", "j", "k", "l", "m", "n", "p", "q", "r", "s", "v", "w", "x", "y", "z">>

RECURSIVE Pow2(_)
Pow2(k) == IF k = 0 THEN 1 ELSE 2 * Pow2(k - 1)

\* u8::checked_shr(k).unwrap_or(0) and u8::checked_shl(k).unwrap_or(0): a
\* shift by 8 or more gives 0, a left shift drops the bits above the eighth
checked_shr(x, k) == IF k >= 8 THEN 0 ELSE x \div Pow2(k)
checked_shl(x, k) == IF k >= 8 THEN 0 ELSE (x * Pow2(k)) % 256

\* the | of two bytes
RECURSIVE BitOr(_, _)
BitOr(a, b) ==
    IF a = 0 THEN b
    ELSE IF b = 0 THEN a
    ELSE (IF a % 2 = 1 \/ b % 2 = 1 THEN 1 ELSE 0) + 2 * BitOr(a \div 2, b \div 2)

Base32Panic == [panic |-> TRUE, value |-> <<>>]
Base32Ok(v) == [panic |-> FALSE, value |-> v]

\* position of a character in BASE32_CHARS, from 0; 32 when it is not there
Position(c) ==
    IF \E d \in 1..Len(BASE32_CHARS) : BASE32_CHARS[d] = c
    THEN (CHOOSE d \in 1..Len(BASE32_CHARS) : BASE32_CHARS[d] = c) - 1
    ELSE 32

EncodedLenCeil(nbytes) == (nbytes * 8 + 4) \div 5

\* line 12: (bytes.len() * 8 - 1) / 5 + 1 in usize. For an empty slice the
\* subtraction overflows: a debug build panics there, a release build wraps
\* to usize::MAX, and the first character computed then indexes bytes out of
\* bounds: -1 stands for both.
EncodedLen(nbytes) ==
    IF nbytes * 8 - 1 < 0 THEN -1 ELSE (nbytes * 8 - 1) \div 5 + 1

\* to_nix_base32: the characters from the highest 5-bit group down
to_nix_base32(bytes) ==
    LET len == EncodedLen(Len(bytes))
    IN IF len < 0 THEN Base32Panic
       ELSE Base32Ok(
              [k \in 1..len |->
                 LET n == len - k
                     b == n * 5
                     i == b \div 8
                     j == b % 8
                     v1 == checked_shr(bytes[i + 1], j)
                     v2 == IF i >= Len(bytes) - 1 THEN 0
                           ELSE checked_shl(bytes[i + 2], 8 - j)
                     v == BitOr(v1, v2)
                 IN BASE32_CHARS[(v % Len(BASE32_CHARS)) + 1]])

\* lines 40-54: the loop of from_nix_base32 from character n on; hash is the
\* vector filled so far
RECURSIVE FromLoop(_, _, _)
FromLoop(s, n, hash) ==
    IF n >= Len(s) THEN Base32Ok(Some(hash))
    ELSE LET digit == Position(s[Len(s) - n])
             b == n * 5
             i == b \div 8
             j == b % 8
             v2 == checked_shr(digit, 8 - j)
         IN IF digit = 32 THEN Base32Ok(NoneV)
            ELSE IF i >= Len(hash) THEN Base32Panic
            ELSE LET h1 == [hash EXCEPT ![i + 1] = BitOr(@, checked_shl(digit, j))]
                 IN IF i < Len(hash) - 1
                    THEN FromLoop(s, n + 1, [h1 EXCEPT ![i + 2] = BitOr(@, v2)])
                    ELSE IF v2 # 0 THEN Base32Ok(NoneV)
                    ELSE FromLoop(s, n + 1, h1)

\* from_nix_base32: None for a character outside the alphabet or for bits
\* beyond the last byte
from_nix_base32(s) == FromLoop(s, 0, [i \in 1..((Len(s) * 5) \div 8) |-> 0])

Base32Idle ==
    /\ b32Pc = "idle"
    /\ b32Bytes = <<>>
    /\ b32Text = Base32Ok(<<>>)
    /\ b32Back = Base32Ok(NoneV)

\* a caller holds a byte string
Base32Call(bytes) ==
    /\ b32Pc = "idle"
    /\ b32Pc' = "start"
    /\ b32Bytes' = bytes
    /\ UNCHANGED <<b32Text, b32Back>>

\* it encodes the byte string
Base32Encode ==
    /\ b32Pc = "start"
    /\ b32Text' = to_nix_base32(b32Bytes)
    /\ b32Pc' = IF b32Text'.panic THEN "panicked" ELSE "encoded"
    /\ UNCHANGED <<b32Bytes, b32Back>>

\* and decodes the text it got
Base32Decode ==
    /\ b32Pc = "encoded"
    /\ b32Back' = from_nix_base32(b32Text.value)
    /\ b32Pc' = "decoded"
    /\ UNCHANGED <<b32Bytes, b32Text>>

\* ----------------------------------------------------------- StreamHasher
VARIABLES
    shPc,     \* position of the reader of the hasher's stream
    shInput,  \* the bytes of the wrapped stream
    shCap,    \* the capacity of the reader's buffer
    shBuf,    \* the bytes the hasher passed through to the reader
    shEos,    \* reads of the wrapped stream that returned 0
    shCell    \* the one-shot cell of the shared handle

hashVars == <<shPc, shInput, shCap, shBuf, shEos, shCell>>

HasherIdle ==
    /\ shPc = "idle"
    /\ shInput = <<>>
    /\ shCap = 1
    /\ shBuf = <<>>
    /\ shEos = 0
    /\ shCell = NoneV

\* StreamHasher::new over a stream, read by read_chunk_async into a buffer
\* of capacity cap
HasherNew(input, cap) ==
    /\ shPc = "idle"
    /\ shPc' = "reading"
    /\ shInput' = input
    /\ shCap' = cap
    /\ UNCHANGED <<shBuf, shEos, shCell>>

\* the cell after a read: a cell that is set stays as it is
CellAfter(cell, passed, sawEof) ==
    IF IsSome(cell) THEN cell ELSE StreamHasher(passed, sawEof)

\* one turn of the loop of read_chunk_async: a read through the hasher,
\* which feeds the digest, counts the bytes and hands them on; a read of 0
\* finalizes the digest into the cell and ends the loop
HasherRead ==
    /\ shPc = "reading"
    /\ Len(shBuf) < shCap
    /\ \E n \in {Min(readSize, Min(Len(shInput) - Len(shBuf), shCap - Len(shBuf)))} :
          /\ shBuf' = shBuf \o SubSeq(shInput, Len(shBuf) + 1, Len(shBuf) + n)
          /\ shEos' = IF n = 0 THEN shEos + 1 ELSE shEos
          /\ shCell' = CellAfter(shCell, shBuf', n = 0)
          /\ shPc' = IF n = 0 THEN "stopped" ELSE "reading"
    /\ UNCHANGED <<shInput, shCap>>

\* the loop of read_chunk_async ends on a full buffer: no further read
HasherFull ==
    /\ shPc = "reading"
    /\ Len(shBuf) >= shCap
    /\ shPc' = "stopped"
    /\ UNCHANGED <<shInput, shCap, shBuf, shEos, shCell>>

\* a reader that reads again after the end of the stream is handed 0 bytes
\* again
HasherReadOn ==
    /\ shPc = "stopped"
    /\ shEos \in 1..(MaxEosReads - 1)
    /\ shEos' = shEos + 1
    /\ shCell' = CellAfter(shCell, shBuf, TRUE)
    /\ UNCHANGED <<shPc, shInput, shCap, shBuf>>

\* ------------------------------------------------------------- S3Backend
VARIABLES
    s3Pc,         \* position of upload_file
    s3Input,      \* the bytes of the stream handed to upload_file
    s3Stream,     \* the bytes of the stream not yet read
    first_chunk,  \* the Option holding the first chunk
    part_number,  \* the number of the next part
    parts,        \* the spawned UploadPart requests, in spawn order
    cleanup,      \* the Finally guard
    s3Calls,      \* the requests the bucket received, in order of arrival
    s3Objects,    \* the objects of the bucket: key -> content
    s3Upload,     \* the multipart upload as the bucket holds it
    s3Faults      \* failures of the stream or of the bucket still to inject

s3Vars == <<s3Pc, s3Input, s3Stream, first_chunk, part_number, parts, cleanup, s3Calls,
            s3Objects, s3Upload, s3Faults>>

\* CHUNK_SIZE (8 MiB) at the scale of the model
CHUNK_SIZE == 2

\* the key upload_file writes
S3Key == "chunks/c1"

\* the ETag the bucket returns for a part
ETag(body) == <<"md5", body>>

Call(op, n, body) == [op |-> op, n |-> n, body |-> body]

\* Finally::new, Finally::cancel and the drop of a Finally: the deferred
\* future is spawned when the guard is dropped without having been cancelled
FinallyNew == "armed"
FinallyCancel(guard) == "cancelled"
FinallyDrop(guard) == IF guard = "armed" THEN "spawned" ELSE guard

S3Idle ==
    /\ s3Pc = "idle"
    /\ s3Input = <<>>
    /\ s3Stream = <<>>
    /\ first_chunk = NoneV
    /\ part_number = 1
    /\ parts = <<>>
    /\ cleanup = "none"
    /\ s3Calls = <<>>
    /\ s3Objects = <<>>
    /\ s3Upload = [st |-> "none", parts |-> <<>>]
    /\ s3Faults = 0

S3ExitLeak(pc) ==
    /\ s3Pc' = pc
    /\ UNCHANGED cleanup

\* upload_file returns Err, or its future is dropped: the locals go out of
\* scope
S3Exit(pc) ==
    /\ s3Pc' = pc
    /\ cleanup' = FinallyDrop(cleanup)

\* upload_chunk or upload_nar calls upload_file
S3UploadFile(input, nfaults) ==
    /\ s3Pc = "idle"
    /\ s3Pc' = "first"
    /\ s3Input' = input
    /\ s3Stream' = input
    /\ s3Faults' = nfaults
    /\ UNCHANGED <<first_chunk, part_number, parts, cleanup, s3Calls, s3Objects, s3Upload>>

FirstShortLe(chunk) == Len(chunk) <= CHUNK_SIZE

\* the test that chooses PutObject
FirstShort(chunk) == Len(chunk) < CHUNK_SIZE

\* lines 111-146: the first chunk is read, then PutObject or
\* CreateMultipartUpload
S3First ==
    /\ s3Pc = "first"
    /\ \/ \* the read fails
          /\ s3Faults > 0
          /\ s3Faults' = s3Faults - 1
          /\ S3Exit("failed")
          /\ UNCHANGED <<s3Input, s3Stream, first_chunk, part_number, parts, s3Calls,
                         s3Objects, s3Upload>>
       \/ \E r \in {read_chunk_async(s3Stream, <<>>, CHUNK_SIZE, readSize)},
             ok \in BOOLEAN :
          /\ ok \/ s3Faults > 0
          /\ s3Faults' = IF ok THEN s3Faults ELSE s3Faults - 1
          /\ s3Stream' = SubSeq(s3Stream, r.taken + 1, Len(s3Stream))
          /\ IF FirstShort(r.bytes)
             THEN /\ s3Calls' = Append(s3Calls, Call("PutObject", 0, r.bytes))
                  /\ s3Objects' = IF ok THEN (S3Key :> r.bytes) @@ s3Objects ELSE s3Objects
                  /\ IF ok THEN s3Pc' = "done" /\ UNCHANGED cleanup ELSE S3Exit("failed")
                  /\ UNCHANGED <<first_chunk, s3Upload>>
             ELSE /\ s3Calls' = Append(s3Calls, Call("CreateMultipartUpload", 0, <<>>))
                  /\ UNCHANGED s3Objects
                  /\ IF ok
                     THEN /\ s3Upload' = [st |-> "open", parts |-> <<>>]
                          /\ cleanup' = FinallyNew
                          /\ first_chunk' = Some(r.bytes)
                          /\ s3Pc' = "loop"
                     ELSE /\ S3Exit("failed")
                          /\ UNCHANGED <<first_chunk, s3Upload>>
          /\ UNCHANGED <<s3Input, part_number, parts>>

\* the part_number a spawned UploadPart carries
PartNumber(n) == n

\* lines 174-202: one turn of the loop
S3Loop ==
    /\ s3Pc = "loop"
    /\ \/ \* the read of a later chunk fails
          /\ part_number # 1
          /\ s3Faults > 0
          /\ s3Faults' = s3Faults - 1
          /\ S3Exit("failed")
          /\ UNCHANGED <<s3Input, s3Stream, first_chunk, part_number, parts, s3Calls,
                         s3Objects, s3Upload>>
       \/ \E r \in {IF part_number = 1
                    THEN [bytes |-> Unwrap(first_chunk), taken |-> 0]
                    ELSE read_chunk_async(s3Stream, <<>>, CHUNK_SIZE, readSize)} :
          /\ first_chunk' = NoneV
          /\ s3Stream' = SubSeq(s3Stream, r.taken + 1, Len(s3Stream))
          /\ IF r.bytes = <<>>
             THEN s3Pc' = "join" /\ UNCHANGED <<parts, part_number>>
             ELSE /\ parts' = Append(parts, [number |-> PartNumber(part_number),
                                             body |-> r.bytes, st |-> "run",
                                             e_tag |-> NoneV])
                  /\ part_number' = part_number + 1
                  /\ UNCHANGED s3Pc
          /\ UNCHANGED <<s3Input, cleanup, s3Calls, s3Objects, s3Upload, s3Faults>>

\* a spawned UploadPart reaches the bucket and is answered; the bucket
\* refuses it when the upload is no longer open
S3UploadPart(i) ==
    /\ parts[i].st = "run"
    /\ s3Calls' = Append(s3Calls, Call("UploadPart", parts[i].number, parts[i].body))
    /\ \E ok \in BOOLEAN :
          /\ ok \/ s3Faults > 0 \/ s3Upload.st # "open"
          /\ ok => s3Upload.st = "open"
          /\ s3Faults' = IF ok \/ s3Upload.st # "open" THEN s3Faults ELSE s3Faults - 1
          /\ parts' = [parts EXCEPT ![i].st = IF ok THEN "ok" ELSE "err",
                                    ![i].e_tag = IF ok THEN Some(ETag(parts[i].body))
                                                 ELSE NoneV]
          /\ s3Upload' = IF ok
                         THEN [s3Upload EXCEPT !.parts = (parts[i].number :> parts[i].body)
                                                          @@ s3Upload.parts]
                         ELSE s3Upload
    /\ UNCHANGED <<s3Pc, s3Input, s3Stream, first_chunk, part_number, cleanup, s3Objects>>

CompletedByFinish(ps) ==
    [idx \in 1..Len(ps) |-> [part_number |-> idx, e_tag |-> ps[Len(ps) + 1 - idx].e_tag]]

\* lines 204-223: the results of join_all, numbered by their position
CompletedParts(ps) ==
    [idx \in 1..Len(ps) |-> [part_number |-> idx, e_tag |-> ps[idx].e_tag]]

\* the bucket assembles the object of a CompleteMultipartUpload: every part
\* listed must be stored under its number with the ETag listed
Assembled(uploaded, listed) ==
    IF \A i \in 1..Len(listed) :
          /\ listed[i].part_number \in DOMAIN uploaded
          /\ listed[i].e_tag = Some(ETag(uploaded[listed[i].part_number]))
    THEN Some(Concat([i \in 1..Len(listed) |-> uploaded[listed[i].part_number]]))
    ELSE NoneV

\* lines 204-238: the parts are joined; with every part stored,
\* CompleteMultipartUpload is sent and the bucket carries it out or fails
S3Join ==
    /\ s3Pc = "join"
    /\ \A i \in 1..Len(parts) : parts[i].st # "run"
    /\ IF \E i \in 1..Len(parts) : parts[i].st = "err"
       THEN /\ S3Exit("failed")
            /\ UNCHANGED <<s3Calls, s3Objects, s3Upload, s3Faults>>
       ELSE /\ s3Calls' = Append(s3Calls, Call("CompleteMultipartUpload", Len(parts),
                                               CompletedParts(parts)))
            /\ \E ok \in BOOLEAN, obj \in {Assembled(s3Upload.parts, CompletedParts(parts))} :
                  /\ ok \/ s3Faults > 0 \/ ~IsSome(obj)
                  /\ ok => IsSome(obj)
                  /\ s3Faults' = IF ok \/ ~IsSome(obj) THEN s3Faults ELSE s3Faults - 1
                  /\ s3Upload' = IF ok THEN [s3Upload EXCEPT !.st = "completed"] ELSE s3Upload
                  /\ s3Objects' = IF ok THEN (S3Key :> Unwrap(obj)) @@ s3Objects
                                  ELSE s3Objects
            /\ s3Pc' = "complete"
            /\ UNCHANGED cleanup
    /\ UNCHANGED <<s3Input, s3Stream, first_chunk, part_number, parts>>

\* lines 238-248: the answer to CompleteMultipartUpload arrives
S3Return ==
    /\ s3Pc = "complete"
    /\ IF s3Upload.st = "completed"
       THEN s3Pc' = "done" /\ cleanup' = FinallyCancel(cleanup)
       ELSE S3Exit("failed")
    /\ UNCHANGED <<s3Input, s3Stream, first_chunk, part_number, parts, s3Calls, s3Objects,
                   s3Upload, s3Faults>>

\* the future of upload_file is dropped at one of its awaits
S3Dropped ==
    /\ s3Pc \in {"first", "loop", "join", "complete"}
    /\ S3Exit("dropped")
    /\ UNCHANGED <<s3Input, s3Stream, first_chunk, part_number, parts, s3Calls, s3Objects,
                   s3Upload, s3Faults>>

\* lines 154-168: the future the guard spawned sends AbortMultipartUpload
S3Abort ==
    /\ cleanup = "spawned"
    /\ cleanup' = "ran"
    /\ s3Calls' = Append(s3Calls, Call("AbortMultipartUpload", 0, <<>>))
    /\ s3Upload' = IF s3Upload.st = "open" THEN [st |-> "aborted", parts |-> <<>>]
                   ELSE s3Upload
    /\ UNCHANGED <<s3Pc, s3Input, s3Stream, first_chunk, part_number, parts, s3Objects,
                   s3Faults>>

\* ----------------------------------------------------------------- Pusher
VARIABLES
    pushPc,      \* the caller: idle, open (Pusher::new returned), join, done
    sender,      \* TRUE while the JobSender of the Pusher is alive
    channel,     \* the path_infos sent and not yet received
    workers,     \* per worker task: st, the path_info in hand, its results
    queued,      \* the path_infos handed to queue(), in order
    uploaded,    \* per path_info queued: the workers that called upload_path on it
    waitResults  \* the map wait() returned

pushVars == <<pushPc, sender, channel, workers, queued, uploaded, waitResults>>

\* the store paths a client pushes
PushPaths == {"sp1", "sp2"}

\* HashMap::insert and HashMap::extend: a later value replaces an earlier
\* one under the same key
Insert(map, key, value) == (key :> value) @@ map
Extend(acc, map) == map @@ acc

PusherIdle ==
    /\ pushPc = "idle"
    /\ sender = FALSE
    /\ channel = <<>>
    /\ workers = <<>>
    /\ queued = <<>>
    /\ uploaded = <<>>
    /\ waitResults = NoneV

\* lines 137-161: Pusher::new opens the unbounded channel and spawns
\* num_workers workers, each with a clone of the receiver
PusherNew(num_workers) ==
    /\ pushPc = "idle"
    /\ pushPc' = "open"
    /\ sender' = TRUE
    /\ workers' = [w \in 1..num_workers |->
                     [st |-> "recv", path_info |-> NoneV, results |-> <<>>]]
    /\ UNCHANGED <<channel, queued, uploaded, waitResults>>

\* lines 164-166: queue sends the path_info; the channel is unbounded and
\* has receivers, so the send succeeds at once
PusherQueue(path) ==
    /\ pushPc = "open"
    /\ Len(queued) < MaxJobs
    /\ \E info \in {[job |-> Len(queued) + 1, path |-> path]} :
          /\ channel' = Append(channel, info)
          /\ queued' = Append(queued, info)
    /\ uploaded' = Append(uploaded, <<>>)
    /\ UNCHANGED <<pushPc, sender, workers, waitResults>>

\* line 172: wait drops the sender, which closes the channel
PusherWait ==
    /\ pushPc = "open"
    /\ pushPc' = "join"
    /\ sender' = FALSE
    /\ UNCHANGED <<channel, workers, queued, uploaded, waitResults>>

RecvClosedEarly(alive, ch) == ~alive

\* Receiver::recv returns Err once the channel is closed and empty
RecvClosed(alive, ch) == ~alive /\ ch = <<>>

\* lines 212-218: recv returns the oldest message to one receiver, or the
\* worker leaves its loop when the channel is closed
WorkerRecv(w) ==
    /\ workers[w].st = "recv"
    /\ IF RecvClosed(sender, channel)
       THEN /\ workers' = [workers EXCEPT ![w].st = "exited"]
            /\ UNCHANGED channel
       ELSE /\ channel # <<>>
            /\ workers' = [workers EXCEPT ![w].st = "upload",
                                          ![w].path_info = Some(Head(channel))]
            /\ channel' = Tail(channel)
    /\ UNCHANGED <<pushPc, sender, queued, uploaded, waitResults>>

\* lines 220-230: upload_path returns Ok or Err, recorded under the path
WorkerUpload(w) ==
    /\ workers[w].st = "upload"
    /\ \E r \in {"Ok", "Err"} :
          workers' = [workers EXCEPT
                        ![w].st = "recv",
                        ![w].path_info = NoneV,
                        ![w].results = Insert(@, Unwrap(workers[w].path_info).path, r)]
    /\ uploaded' = [uploaded EXCEPT ![Unwrap(workers[w].path_info).job] = Append(@, w)]
    /\ UNCHANGED <<pushPc, sender, channel, queued, waitResults>>

\* lines 174-181: the fold of the workers' maps, in the order of the workers
RECURSIVE FoldResults(_, _)
FoldResults(ws, n) ==
    IF n = 0 THEN <<>> ELSE Extend(FoldResults(ws, n - 1), ws[n].results)

\* lines 174-183: join_all resolves when every worker has returned
PusherJoin ==
    /\ pushPc = "join"
    /\ \A w \in 1..Len(workers) : workers[w].st = "exited"
    /\ pushPc' = "done"
    /\ waitResults' = Some(FoldResults(workers, Len(workers)))
    /\ UNCHANGED <<sender, channel, workers, queued, uploaded>>

\* ----------------------------------------------------------------- router
VARIABLES
    srvPc,   \* run_api_server: init, listening, panicked
    rtReq,   \* the last request routed
    rtResp   \* its answer: who answered and the kind of the answer

routeVars == <<srvPc, rtReq, rtResp>>

\* A Router: its routes, each with a path pattern (the segments, ":path"
\* a parameter), a method, a handler and the layers around it from the
\* innermost; its fallback; and whether one method was registered twice for
\* one path.
RouterNew ==
    [routes |-> {}, fallback |-> [handler |-> "default", layers |-> <<>>], overlap |-> FALSE]

Overlaps(rs, qs) == \E x \in rs, y \in qs : x.path = y.path /\ x.method = y.method

\* Router::route with one method
route(r, path, method, handler) ==
    [r EXCEPT !.routes = @ \cup {[path |-> path, method |-> method, handler |-> handler,
                                  layers |-> <<>>]},
              !.overlap = @ \/ Overlaps(r.routes, {[path |-> path, method |-> method]})]

\* Router::merge
merge(r, other) ==
    [r EXCEPT !.routes = @ \cup other.routes,
              !.overlap = @ \/ other.overlap \/ Overlaps(r.routes, other.routes)]

\* Router::nest: the routes of other under the prefix
nest(r, prefix, other) ==
    merge(r, [other EXCEPT !.routes = {[x EXCEPT !.path = prefix \o @] : x \in @}])

\* Router::fallback
fallback(r, handler) == [r EXCEPT !.fallback = [handler |-> handler, layers |-> <<>>]]

route_layer(r, l) ==
    [r EXCEPT !.routes = {[x EXCEPT !.layers = Append(@, l)] : x \in @}]

\* Router::layer: around every route the router has at that moment, and
\* around its fallback
layer(r, l) ==
    [r EXCEPT !.routes = {[x EXCEPT !.layers = Append(@, l)] : x \in @},
              !.fallback.layers = Append(@, l)]

\* binary_cache.rs 242-248
binary_cache_router ==
    route(route(route(route(RouterNew,
        <<"nix-cache-info">>, "GET", "get_nix_cache_info"),
        <<":path">>, "HEAD", "get_store_path_info"),
        <<":path">>, "GET", "get_store_path_info"),
        <<"nar", ":path">>, "GET", "get_nar")

\* api/v1/mod.rs 10-14
v1_router ==
    route(route(RouterNew,
        <<"upload-path">>, "PUT", "upload_path"),
        <<"cache-config">>, "GET", "cache_config")

\* api/mod.rs 88-93
api_router ==
    nest(merge(route(RouterNew, <<>>, "GET", "home"), binary_cache_router),
         <<"_api">>, nest(RouterNew, <<"v1">>, v1_router))

\* lib.rs 62-70: the router run_api_server serves
Rest ==
    layer(layer(layer(
        route(layer(fallback(merge(RouterNew, api_router), "fallback"), "RequireAuth"),
              <<>>, "GET", "home"),
        "Extension"), "TraceLayer"), "CatchPanicLayer")

\* a path pattern matches a path segment by segment
Matches(pattern, path) ==
    /\ Len(pattern) = Len(path)
    /\ \A i \in 1..Len(path) : pattern[i] = path[i] \/ pattern[i] = ":path"

\* the patterns of r that serve the path; one without parameters goes first
Patterns(r, path) ==
    LET all == {x.path : x \in {y \in r.routes : Matches(y.path, path)}}
    IN IF path \in all THEN {path} ELSE all

\* a method route serves its method, and a GET route HEAD as well
Handles(method, requested) ==
    method = requested \/ (method = "GET" /\ requested = "HEAD")

\* the endpoints that may serve a request: the routes of its path and
\* method, the method-not-allowed answer of the path, or the fallback
Endpoint(r, req) ==
    LET rs == {x \in r.routes : x.path \in Patterns(r, req.path)}
        ms == {x \in rs : Handles(x.method, req.method)}
    IN IF rs = {} THEN {r.fallback}
       ELSE IF ms = {} THEN {[handler |-> "method_not_allowed", layers |-> x.layers] : x \in rs}
       ELSE {[handler |-> x.handler, layers |-> x.layers] : x \in ms}

\* the request goes through the layers of the endpoint; RequireAuth answers
\* in the handler's place when it rejects
Answer(ep, secret, req) ==
    IF /\ \E i \in 1..Len(ep.layers) : ep.layers[i] = "RequireAuth"
       /\ RequireAuth(secret, req.authorization) # "next"
    THEN [by |-> "RequireAuth", kind |-> RequireAuth(secret, req.authorization)]
    ELSE [by |-> ep.handler,
          kind |-> IF ep.handler = "fallback" THEN "NotFound" ELSE "handler"]

RouterIdle ==
    /\ srvPc = "init"
    /\ rtReq = NoneV
    /\ rtResp = NoneV

\* lib.rs 52-75: the router is built and served. Registering GET / a second
\* time (lib.rs 67 after api/mod.rs 90) is refused by a router that panics
\* on an overlapping method route and accepted by one that keeps both.
RunApiServer ==
    /\ srvPc = "init"
    /\ srvPc' \in IF Rest.overlap THEN {"panicked", "listening"} ELSE {"listening"}
    /\ UNCHANGED <<rtReq, rtResp>>

\* a request is routed and answered
HttpRequest(req) ==
    /\ srvPc = "listening"
    /\ rtReq' = Some(req)
    /\ \E ep \in Endpoint(Rest, req) :
          rtResp' = Some(Answer(ep, token_hs256_secret(cfg), req))
    /\ UNCHANGED srvPc

\* ------------------------------------------------------------ specification
Configs ==
    {[compression |-> c, nar_size_threshold |-> t, min_size |-> 1, avg_size |-> 2,
      max_size |-> 3] : c \in CompressionTypes, t \in {0, 2}}

\* the upload requests a client may send: any body, a declared size around
\* the body's, the hash of the declared archive or another one
UploadInit ==
    /\ chunkFiles = <<>>
    /\ narFiles = <<>>
    /\ upPc = "idle"
    /\ upPath = "none"
    /\ reordered = FALSE
    /\ upInfo = [store_path_hash |-> "sp1", store_path |-> "", nar_hash |-> Sha256(<<>>),
                 nar_size |-> 0]
    /\ upBody = <<>>
    /\ chunks = ChunkerInit
    /\ data = NoneV
    /\ futures = <<>>
    /\ permits = CONCURRENT_CHUNK_UPLOADS
    /\ upRead = NoneV
    /\ upNar = <<>>
    /\ upResp = "none"
    /\ nUploads = 0
    /\ accepted = [h \in StorePathHashes |-> NoneV]
    /\ upReq = [req |-> NoRequest, read |-> 0, handled |-> FALSE]
    /\ upPrev = NoOutcome
    /\ getPath = [route |-> "none", path |-> <<>>]
    /\ srvError = NoneV
    /\ srvResponse = NoneV
    /\ S3Idle
    /\ HasherIdle
    /\ Base32Idle
    /\ PusherIdle
    /\ RouterIdle

\* the upload requests a client may send: any body, any declared size, the
\* hash of the archive it declares or another one
ClientUpload ==
    \E b \in SeqsUpTo(Byte, MaxBody), ns \in 0..(MaxBody + 1), ok \in BOOLEAN,
       h \in StorePathHashes :
        PutUploadPath(PreambleRequest(
                   [store_path_hash |-> h, store_path |-> h,
                    nar_hash |-> IF ok THEN Sha256(Take(b, ns))
                                 ELSE OtherHash(Sha256(Take(b, ns))),
                    nar_size |-> ns], b))

uploadVars == <<cfg, maxUp, chunkFiles, narFiles, faults, upPc, upPath, reordered, upInfo, upBody, chunks,
                data, futures, permits, upRead, upNar, upResp, nUploads, accepted>>

vars == <<uploadVars, mergeVars, getVars, readSize, upReq, upPrev, getPath, srvError, srvResponse,
          s3Vars, hashVars, b32Vars, pushVars, routeVars>>

\* The clients are sequential: uploads first, downloads once the server is
\* quiet.
Quiet == upPc \in {"idle", "done"} /\ AllTasksDone

\* a step of the upload handler or of one of its tasks
Up(A) ==
    /\ getPc = "idle"
    /\ A
    /\ UNCHANGED <<mergeVars, getVars, readSize, upReq, upPrev, getPath, srvError, srvResponse, s3Vars, hashVars, b32Vars, pushVars, routeVars>>
\* the arrival of a PUT request
Put(A) ==
    /\ getPc = "idle"
    /\ A
    /\ UNCHANGED <<mergeVars, getVars, readSize, getPath, srvError, srvResponse, s3Vars, hashVars, b32Vars, pushVars, routeVars>>
\* a step of the download handler
Down(A) ==
    /\ Quiet
    /\ A
    /\ UNCHANGED <<uploadVars, readSize, upReq, upPrev, getPath, srvError, srvResponse, s3Vars, hashVars, b32Vars, pushVars, routeVars>>
\* the arrival of a GET or HEAD request
Get(A) == Quiet /\ A /\ UNCHANGED <<uploadVars, readSize, upReq, upPrev, srvError, srvResponse, s3Vars, hashVars, b32Vars, pushVars, routeVars>>
\* a step of the error rendering
Render(A) == A /\ UNCHANGED <<uploadVars, mergeVars, getVars, readSize, upReq, upPrev, getPath, s3Vars, hashVars, b32Vars, pushVars, routeVars>>
\* a step of upload_file, of one of its tasks or of the bucket
S3(A) ==
    /\ A
    /\ UNCHANGED <<uploadVars, mergeVars, getVars, readSize, upReq, upPrev, getPath, srvError,
                   srvResponse, hashVars, b32Vars, pushVars, routeVars>>
\* a step of a StreamHasher or of its reader
Hasher(A) ==
    /\ A
    /\ UNCHANGED <<uploadVars, mergeVars, getVars, readSize, upReq, upPrev, getPath, srvError,
                   srvResponse, s3Vars, b32Vars, pushVars, routeVars>>
\* a step of a caller of nix_base32
Base32(A) ==
    /\ A
    /\ UNCHANGED <<uploadVars, mergeVars, getVars, readSize, upReq, upPrev, getPath, srvError,
                   srvResponse, s3Vars, hashVars, pushVars, routeVars>>
\* a step of a Pusher, of its caller or of one of its workers
Push(A) ==
    /\ A
    /\ UNCHANGED <<uploadVars, mergeVars, getVars, readSize, upReq, upPrev, getPath, srvError,
                   srvResponse, s3Vars, hashVars, b32Vars, routeVars>>
\* a step of run_api_server or of its router
Serve(A) ==
    /\ A
    /\ UNCHANGED <<uploadVars, mergeVars, getVars, readSize, upReq, upPrev, getPath, srvError,
                   srvResponse, s3Vars, hashVars, b32Vars, pushVars>>
\* a step of the merged stream
Merge(A) ==
    /\ A
    /\ UNCHANGED <<uploadVars, getVars, readSize, upReq, upPrev, getPath, srvError, srvResponse, s3Vars, hashVars, b32Vars, pushVars, routeVars>>

\* ---- Spec: one upload, with at most MaxFaults storage failures, then
\* downloads; every compression type, threshold 0 and 2
Init ==
    /\ cfg \in Configs
    /\ UploadInit
    /\ readSize = 1
    /\ MergeIdle
    /\ GetIdle
    /\ maxUp = 1
    /\ faults = MaxFaults

Next ==
    \/ Put(ClientUpload)
    \/ Up(UnchunkedRead)
    \/ Up(UnchunkedCreate)
    \/ Up(UnchunkedCopy)
    \/ Up(ChunkNext)
    \/ Up(ChunkReadError)
    \/ Up(AcquireAndSpawn)
    \/ Up(\E i \in 1..Len(futures) : TaskCreate(i))
    \/ Up(\E i \in 1..Len(futures) : TaskCopy(i))
    \/ Up(ChunkedCheck)
    \/ Up(ChunkedJoin)
    \/ Up(NarCreate)
    \/ Up(NarCopy)
    \/ Get(\E h \in StorePathHashes : get_nar(<<h, ".", "nar">>))
    \/ Down(GetSingle)
    \/ Down(GetMerged)
    \/ Merge(MergeAdvance)
    \/ Merge(\E j \in 1..Len(streams) : OpenDone(j))
    \/ Merge(AwaitedOpenDone)
    \/ Merge(MergeAwait)
    \/ Merge(MergeYield)

Spec == Init /\ [][Next]_vars

\* ---- SpecReupload: up to MaxUploads uploads in sequence to one server
ReuploadConfigs ==
    {[compression |-> c, nar_size_threshold |-> t, min_size |-> 1, avg_size |-> 2,
      max_size |-> 3] : c \in {"zstd"}, t \in {0, 2}}

InitReupload ==
    /\ cfg \in ReuploadConfigs
    /\ UploadInit
    /\ readSize = 1
    /\ MergeIdle
    /\ GetIdle
    /\ maxUp = MaxUploads
    /\ faults = MaxFaults

SpecReupload == InitReupload /\ [][Next]_vars

\* ---- SpecIdem: a client uploads an archive of up to MaxIdemBody bytes and
\* sends the same request again, up to MaxIdemUploads times in all, with
\* every compression and both upload paths
InitIdem ==
    /\ cfg \in Configs
    /\ UploadInit
    /\ readSize = 1
    /\ MergeIdle
    /\ GetIdle
    /\ maxUp = MaxIdemUploads
    /\ faults \in {0, MaxFaults}

IdemUpload ==
    /\ nUploads < maxUp
    /\ IF nUploads = 0
       THEN \E b \in SeqsUpTo(Byte, MaxIdemBody), ok \in BOOLEAN :
               PutUploadPath(PreambleRequest(
                   [store_path_hash |-> "sp1", store_path |-> "sp1",
                    nar_hash |-> IF ok THEN Sha256(b) ELSE OtherHash(Sha256(b)),
                    nar_size |-> Len(b)], b))
       ELSE PutUploadPath(upReq.req)

NextIdem ==
    \/ Put(IdemUpload)
    \/ Up(UnchunkedRead)
    \/ Up(UnchunkedCreate)
    \/ Up(UnchunkedCopy)
    \/ Up(ChunkNext)
    \/ Up(AcquireAndSpawn)
    \/ Up(\E i \in 1..Len(futures) : TaskCreate(i))
    \/ Up(\E i \in 1..Len(futures) : TaskCopy(i))
    \/ Up(ChunkedCheck)
    \/ Up(ChunkedJoin)
    \/ Up(NarCreate)
    \/ Up(NarCopy)

SpecIdem == InitIdem /\ [][NextIdem]_vars

\* ---- SpecRace: one upload on the unchunked path and one GET of the same
\* store path hash that arrives at any point of the upload
InitRace ==
    /\ cfg \in {c \in Configs : c.nar_size_threshold = 0}
    /\ UploadInit
    /\ readSize = 1
    /\ MergeIdle
    /\ GetIdle
    /\ maxUp = 1
    /\ faults \in {0, MaxFaults}

RaceUpload ==
    /\ nUploads < maxUp
    /\ \E b \in SeqsUpTo(Byte, MaxRaceBody) :
          PutUploadPath(PreambleRequest(
              [store_path_hash |-> "sp1", store_path |-> "sp1", nar_hash |-> Sha256(b),
               nar_size |-> Len(b)], b))

\* a step of a download handler that runs while an upload is being served
During(A) ==
    /\ A
    /\ UNCHANGED <<uploadVars, readSize, upReq, upPrev, srvError, srvResponse, s3Vars, hashVars, b32Vars, pushVars, routeVars>>

NextRace ==
    \/ Put(RaceUpload)
    \/ Up(UnchunkedRead)
    \/ Up(UnchunkedCreate)
    \/ Up(UnchunkedCopy)
    \/ Up(NarCreate)
    \/ Up(NarCopy)
    \/ During(get_store_path_info(<<"sp1", ".", "narinfo">>))
    \/ During(get_nar(<<"sp1", ".", "nar">>))
    \/ During(GetSingle /\ UNCHANGED getPath)

SpecRace == InitRace /\ [][NextRace]_vars

\* ---- SpecHasher: a StreamHasher over every stream of up to MaxHashBody
\* bytes, read by read_chunk_async into buffers of 1..MaxHashCap bytes, by
\* reads of 1..MaxRead bytes
InitHasher ==
    /\ cfg \in {c \in Configs : c.compression = "none" /\ c.nar_size_threshold = 0}
    /\ UploadInit
    /\ readSize \in 1..MaxRead
    /\ MergeIdle
    /\ GetIdle
    /\ maxUp = 0
    /\ faults = 0

NextHasher ==
    \/ Hasher(\E input \in SeqsUpTo(Byte, MaxHashBody), cap \in 1..MaxHashCap :
                 HasherNew(input, cap))
    \/ Hasher(HasherRead)
    \/ Hasher(HasherFull)
    \/ Hasher(HasherReadOn)

SpecHasher == InitHasher /\ [][NextHasher]_vars

\* ---- SpecBase32: to_nix_base32 and from_nix_base32 over every string of
\* up to MaxB32Len bytes drawn from B32Bytes
B32Bytes == {0, 1, 31, 128, 255}

InitBase32 ==
    /\ cfg \in {c \in Configs : c.compression = "none" /\ c.nar_size_threshold = 0}
    /\ UploadInit
    /\ readSize = 1
    /\ MergeIdle
    /\ GetIdle
    /\ maxUp = 0
    /\ faults = 0

NextBase32 ==
    \/ Base32(\E bytes \in SeqsUpTo(B32Bytes, MaxB32Len) : Base32Call(bytes))
    \/ Base32(Base32Encode)
    \/ Base32(Base32Decode)

SpecBase32 == InitBase32 /\ [][NextBase32]_vars

\* ---- SpecPush: a Pusher of 1..MaxWorkers workers, up to MaxJobs path_infos
\* of PushPaths queued, then wait(); the workers interleave freely and each
\* upload succeeds or fails
InitPush ==
    /\ cfg \in {c \in Configs : c.compression = "none" /\ c.nar_size_threshold = 0}
    /\ UploadInit
    /\ readSize = 1
    /\ MergeIdle
    /\ GetIdle
    /\ maxUp = 0
    /\ faults = 0

NextPush ==
    \/ Push(\E n \in 1..MaxWorkers : PusherNew(n))
    \/ Push(\E path \in PushPaths : PusherQueue(path))
    \/ Push(PusherWait)
    \/ Push(\E w \in 1..Len(workers) : WorkerRecv(w))
    \/ Push(\E w \in 1..Len(workers) : WorkerUpload(w))
    \/ Push(PusherJoin)

SpecPush == InitPush /\ [][NextPush]_vars

\* ---- SpecPermits: one chunked upload of an archive that the chunker cuts
\* into more slices than there are permits
PermitSlices == CONCURRENT_CHUNK_UPLOADS + ExtraChunks
PermitBody == [i \in 1..(2 * PermitSlices) |-> 1]

InitPermits ==
    /\ cfg = [compression |-> "none", nar_size_threshold |-> 2, min_size |-> 1,
              avg_size |-> 2, max_size |-> 3]
    /\ UploadInit
    /\ readSize = 1
    /\ MergeIdle
    /\ GetIdle
    /\ maxUp = 1
    /\ faults = 0

PermitUpload ==
    PutUploadPath(PreambleRequest(
               [store_path_hash |-> "sp1", store_path |-> "sp1",
                nar_hash |-> Sha256(PermitBody), nar_size |-> Len(PermitBody)],
               PermitBody))

NextPermits ==
    \/ Put(PermitUpload)
    \/ Up(ChunkNext)
    \/ Up(AcquireAndSpawn)
    \/ Up(\E i \in 1..Len(futures) : TaskRun(i))
    \/ Up(ChunkedCheck)
    \/ Up(ChunkedJoin)
    \/ Up(NarCreate)
    \/ Up(NarCopy)

SpecPermits == InitPermits /\ [][NextPermits]_vars

\* ---- SpecChunking: one chunked upload for every min_size <= avg_size <=
\* max_size up to MaxChunkSize, every body up to MaxChunkBody bytes and a
\* connection that delivers 1..MaxRead bytes per read; no storage failure.
\* The declared size and hash are the body's (an empty body declares 1).
ChunkingConfigs ==
    {[compression |-> "none", nar_size_threshold |-> 1, min_size |-> a, avg_size |-> b,
      max_size |-> c] : a \in 1..MaxChunkSize, b \in 1..MaxChunkSize,
                        c \in 1..MaxChunkSize} \ {c \in
    {[compression |-> "none", nar_size_threshold |-> 1, min_size |-> a, avg_size |-> b,
      max_size |-> c] : a \in 1..MaxChunkSize, b \in 1..MaxChunkSize,
                        c \in 1..MaxChunkSize} : c.min_size > c.avg_size \/ c.avg_size > c.max_size}

InitChunking ==
    /\ cfg \in ChunkingConfigs
    /\ UploadInit
    /\ readSize \in 1..MaxRead
    /\ MergeIdle
    /\ GetIdle
    /\ maxUp = 1
    /\ faults = 0

ChunkingUpload ==
    \E b \in SeqsUpTo(Byte, MaxChunkBody) :
        PutUploadPath(PreambleRequest(
                   [store_path_hash |-> "sp1", store_path |-> "sp1",
                    nar_hash |-> Sha256(b),
                    nar_size |-> IF b = <<>> THEN 1 ELSE Len(b)], b))

NextChunking ==
    \/ Put(ChunkingUpload)
    \/ Up(ChunkNext)
    \/ Up(AcquireAndSpawn)
    \/ Up(\E i \in 1..Len(futures) : TaskRun(i))
    \/ Up(ChunkedCheck)
    \/ Up(ChunkedJoin)
    \/ Up(NarCreate)
    \/ Up(NarCopy)

SpecChunking == InitChunking /\ [][NextChunking]_vars

\* the handler and its tasks are scheduled in the end
SpecChunkingLive ==
    /\ SpecChunking
    /\ WF_vars(Up(ChunkNext))
    /\ WF_vars(Up(AcquireAndSpawn))
    /\ WF_vars(Up(\E i \in 1..Len(futures) : TaskRun(i)))
    /\ WF_vars(Up(ChunkedCheck))
    /\ WF_vars(Up(ChunkedJoin))
    /\ WF_vars(Up(NarCreate))
    /\ WF_vars(Up(NarCopy))

\* ---- SpecRequest: one PUT of every shape to a server with and without a
\* token secret, unchunked storage, no storage failure. The header values
\* are sequences of characters, "0xff" a byte that is not visible ASCII.
Requests ==
    LET Tokens == {[alg |-> a, key |-> k, expired |-> e] :
                      a \in {"HS256", "none"}, k \in {"k1", "k2"}, e \in BOOLEAN}
        Authorizations ==
            {NoneV, Some(<<>>), Some(<<"Bearer">>)}
            \cup {Some(<<"Bearer", t>>) : t \in Tokens}
            \cup {Some(<<"Basic", [alg |-> "HS256", key |-> "k1", expired |-> FALSE]>>)}
        SizeValues ==
            {<<>>, <<"0">>, <<"1">>, <<"2">>, <<"3">>, <<"4">>, <<"+", "2">>,
             <<"0", "2">>, <<"-", "2">>, <<"x">>, <<"2", "x">>, <<"0xff">>,
             <<"2", "0xff">>}
        info == [store_path_hash |-> "sp1", store_path |-> "sp1",
                 nar_hash |-> Sha256(<<1>>), nar_size |-> 1]
        \* a Request, a Request cut short, a Request with a store path hash
        \* of another format, a document that is no Request, nothing
        Documents ==
            {RequestJson(info), Take(RequestJson(info), 1),
             RequestJson([info EXCEPT !.store_path_hash = "SP1"]),
             <<Token("nar", Sha256(<<1>>), 1, "sp1"), Token("end", <<>>, 0, "")>>, <<>>}
    IN {r \in [authorization : Authorizations,
               preamble_size : {NoneV} \cup {Some(v) : v \in SizeValues},
               nar_info : {NoneV} \cup {Some(d) : d \in Documents},
               body : {Body(d, n) : d \in Documents, n \in SeqsUpTo({1}, MaxPreambleNar)}] :
           \* a body read as the archive from its first byte holds bytes only
           IsSome(r.preamble_size) \/ r.body.json = <<>>}

RequestConfigs ==
    LET c == [compression |-> "none", nar_size_threshold |-> 0, min_size |-> 1,
              avg_size |-> 2, max_size |-> 3]
    IN {c, c @@ [token_hs256_secret |-> "k1"]}

InitRequest ==
    /\ cfg \in RequestConfigs
    /\ UploadInit
    /\ readSize \in 1..MaxRead
    /\ MergeIdle
    /\ GetIdle
    /\ maxUp = 1
    /\ faults = 0

ClientRequest == nUploads < maxUp /\ \E r \in Requests : PutUploadPath(r)

NextRequest ==
    \/ Put(ClientRequest)
    \/ Up(UnchunkedRead)
    \/ Up(UnchunkedCreate)
    \/ Up(UnchunkedCopy)
    \/ Up(NarCreate)
    \/ Up(NarCopy)

SpecRequest == InitRequest /\ [][NextRequest]_vars

\* ---- SpecRoute: run_api_server with and without a token secret, and
\* requests of every method of RouteMethods to every path of RoutePaths
\* with every kind of credentials
RouteMethods == {"GET", "HEAD", "PUT", "DELETE"}

RoutePaths ==
    {<<>>, <<"nix-cache-info">>, <<"sp1.narinfo">>, <<"nar", "sp1.nar">>,
     <<"_api", "v1", "upload-path">>, <<"_api", "v1", "cache-config">>,
     <<"_api">>, <<"_api", "v1", "gc">>, <<"nar", "sp1.nar", "x">>}

RouteAuthorizations ==
    {NoneV, Some(<<"Bearer">>),
     Some(<<"Bearer", [alg |-> "HS256", key |-> "k1", expired |-> FALSE]>>),
     Some(<<"Bearer", [alg |-> "HS256", key |-> "k1", expired |-> TRUE]>>),
     Some(<<"Bearer", [alg |-> "HS256", key |-> "k2", expired |-> FALSE]>>),
     Some(<<"Basic", [alg |-> "HS256", key |-> "k1", expired |-> FALSE]>>)}

InitRoute ==
    /\ cfg \in RequestConfigs
    /\ UploadInit
    /\ readSize = 1
    /\ MergeIdle
    /\ GetIdle
    /\ maxUp = 0
    /\ faults = 0

NextRoute ==
    \/ Serve(RunApiServer)
    \/ Serve(\E m \in RouteMethods, path \in RoutePaths, a \in RouteAuthorizations :
                HttpRequest([method |-> m, path |-> path, authorization |-> a]))

SpecRoute == InitRoute /\ [][NextRoute]_vars

\* ---- SpecGet: one stored archive of a single chunk at most, and GET
\* requests of every path of Paths on both routes, before, while and after
\* the archive is stored (the handlers run one at a time)
Paths ==
    {<<h, ".", x>> : h \in {"sp1", "SP1"}, x \in {"nar", "narinfo", "ls"}}
    \cup {<<>>, <<"sp1">>, <<".", "nar">>, <<".", "narinfo">>, <<"sp1", ".">>,
          <<"sp1", ".", "nar", ".", "nar">>, <<"sp1", "sp1", ".", "nar">>,
          <<"sp1", "sp1", ".", "narinfo">>}

InitGet ==
    /\ cfg = [compression |-> "none", nar_size_threshold |-> 0, min_size |-> 1,
              avg_size |-> 2, max_size |-> 3]
    /\ UploadInit
    /\ readSize = 1
    /\ MergeIdle
    /\ GetIdle
    /\ maxUp = 1
    /\ faults = 0

GetUpload ==
    \E b \in SeqsUpTo(Byte, MaxGetBody) :
        PutUploadPath(PreambleRequest(
            [store_path_hash |-> "sp1", store_path |-> "sp1", nar_hash |-> Sha256(b),
             nar_size |-> Len(b)], b))

NextGet ==
    \/ Put(GetUpload)
    \/ Up(UnchunkedRead)
    \/ Up(UnchunkedCreate)
    \/ Up(UnchunkedCopy)
    \/ Up(NarCreate)
    \/ Up(NarCopy)
    \/ Get(\E path \in Paths : get_nar(path))
    \/ Get(\E path \in Paths : get_store_path_info(path))
    \/ Down(GetSingle)

SpecGet == InitGet /\ [][NextGet]_vars

\* ---- SpecError: every ErrorKind of error.rs, with each of MaxCause causes
\* (the texts "1", "2", ..), is returned by a handler and turned into a
\* response
Errors ==
    {ErrorKind(k, "") : k \in {"InternalServerError", "NotFound"}}
    \cup {ErrorKind(k, c) :
            k \in {"StorageError", "RequestError", "InvalidCompressionType",
                   "ManifestSerializationError"},
            c \in {ToString(i) : i \in 1..MaxCause}}

InitError ==
    /\ cfg \in RequestConfigs
    /\ UploadInit
    /\ readSize = 1
    /\ MergeIdle
    /\ GetIdle
    /\ maxUp = 0
    /\ faults = 0

\* a handler returns Err(e)
ReturnErr ==
    /\ srvError = NoneV
    /\ \E e \in Errors : srvError' = Some(e)
    /\ UNCHANGED srvResponse

\* axum turns the ServerError into the response
IntoResponse ==
    /\ IsSome(srvError)
    /\ srvResponse = NoneV
    /\ srvResponse' = Some(into_response(Unwrap(srvError)))
    /\ UNCHANGED srvError

NextError ==
    \/ Render(ReturnErr)
    \/ Render(IntoResponse)

SpecError == InitError /\ [][NextError]_vars

\* ---- SpecS3: one upload_file of every stream of up to MaxS3Body bytes,
\* reads of 1..MaxRead bytes, up to MaxS3Faults failures of the stream or of
\* the bucket, the UploadPart requests answered in any order, the future
\* dropped at any await
InitS3 ==
    /\ cfg \in {c \in Configs : c.compression = "none" /\ c.nar_size_threshold = 0}
    /\ UploadInit
    /\ readSize \in 1..MaxRead
    /\ MergeIdle
    /\ GetIdle
    /\ maxUp = 0
    /\ faults = 0

NextS3 ==
    \/ S3(\E input \in SeqsUpTo(Byte, MaxS3Body), n \in 0..MaxS3Faults :
             S3UploadFile(input, n))
    \/ S3(S3First)
    \/ S3(S3Loop)
    \/ S3(\E i \in 1..Len(parts) : S3UploadPart(i))
    \/ S3(S3Join)
    \/ S3(S3Return)
    \/ S3(S3Dropped)
    \/ S3(S3Abort)

SpecS3 == InitS3 /\ [][NextS3]_vars

\* the steps of upload_file, of its tasks and of the bucket are taken in the
\* end; the future may be dropped or not
SpecS3Live ==
    /\ SpecS3
    /\ WF_vars(S3(S3First))
    /\ WF_vars(S3(S3Loop))
    /\ WF_vars(S3(\E i \in 1..Len(parts) : S3UploadPart(i)))
    /\ WF_vars(S3(S3Join))
    /\ WF_vars(S3(S3Return))
    /\ WF_vars(S3(S3Abort))

\* ---- SpecMerge: merge_chunks over every queue of up to MaxDescs
\* descriptors of up to MaxFrames frames each, num_prefetch 0..MaxPrefetch;
\* frame f of descriptor k carries the bytes k, f
FramesOf(k, n) == [f \in 1..n |-> OkItem(<<k, f>>)]

DescQueues ==
    UNION {{[k \in 1..n |-> FrameDesc(k, FramesOf(k, fc[k]))] :
              fc \in [1..n -> 0..MaxFrames]} : n \in 0..MaxDescs}

InitMerge ==
    /\ cfg \in {c \in Configs : c.compression = "none" /\ c.nar_size_threshold = 0}
    /\ UploadInit
    /\ readSize = 1
    /\ GetIdle
    /\ maxUp = 0
    /\ faults = 0
    /\ mChunks \in DescQueues
    /\ mQueue0 = mChunks
    /\ streams = <<>>
    /\ mAwait = NoneV
    /\ mStream = <<>>
    /\ mOut = <<>>
    /\ mPc = "start"
    /\ num_prefetch \in 0..MaxPrefetch
    /\ mOpened = <<>>
    /\ mFaults = MaxFaults

NextMerge ==
    \/ Merge(MergeAdvance)
    \/ Merge(\E j \in 1..Len(streams) : OpenDone(j))
    \/ Merge(AwaitedOpenDone)
    \/ Merge(MergeAwait)
    \/ Merge(MergeYield)

SpecMerge == InitMerge /\ [][NextMerge]_vars

\* ---- SpecMergeLive: merge_chunks with opens and frames that never fail,
\* every spawned open run to its end by the runtime and the merged stream
\* polled by its consumer until it ends
InitMergeLive ==
    /\ cfg \in {c \in Configs : c.compression = "none" /\ c.nar_size_threshold = 0}
    /\ UploadInit
    /\ readSize = 1
    /\ GetIdle
    /\ maxUp = 0
    /\ faults = 0
    /\ mChunks \in DescQueues
    /\ mQueue0 = mChunks
    /\ streams = <<>>
    /\ mAwait = NoneV
    /\ mStream = <<>>
    /\ mOut = <<>>
    /\ mPc = "start"
    /\ num_prefetch \in 0..MaxPrefetch
    /\ mOpened = <<>>
    /\ mFaults = 0

SpecMergeLive ==
    /\ InitMergeLive
    /\ [][NextMerge]_vars
    /\ WF_vars(Merge(MergeAdvance))
    /\ WF_vars(Merge(\E j \in 1..Len(streams) : OpenDone(j)))
    /\ WF_vars(Merge(AwaitedOpenDone))
    /\ WF_vars(Merge(MergeAwait))
    /\ WF_vars(Merge(MergeYield))

\* ------------------------------------------------------------------ claims
IsPrefix(a, b) == Len(a) <= Len(b) /\ a = SubSeq(b, 1, Len(a))

\* the manifest stored under h, if there is a complete one
Manifest(h) == IF h \in DOMAIN narFiles THEN from_slice(narFiles[h]) ELSE NoneV

\* the received archive differs from what the request declares
Mismatch == Sha256(Received) # upInfo.nar_hash \/ Len(Received) # upInfo.nar_size

\* C1: once an upload of archive A was answered 200, a GET of the NAR
\* returns a body equal to A, for every compression type and both paths.
C1_RoundTrip ==
    (getPc = "done" /\ IsSome(accepted[getHash]))
        => (getResp = "Ok" /\ getBody = Unwrap(accepted[getHash]))

\* C2: an upload whose received archive differs from the declared hash or
\* size is answered RequestError and leaves no manifest under its store
\* path hash.
C2_MismatchRejected ==
    (upPc = "done" /\ Mismatch)
        => (upResp = "RequestError" /\ upInfo.store_path_hash \notin DOMAIN narFiles)

\* the decoded bytes of the chunks a manifest lists, NoneV if one of them
\* is missing or not decodable
DecodedChunks(nar) ==
    IF \A i \in 1..Len(nar.chunks) :
          /\ ToTypedBase32(nar.chunks[i].file_hash) \in DOMAIN chunkFiles
          /\ Decodable(nar.chunks[i].compression,
                       chunkFiles[ToTypedBase32(nar.chunks[i].file_hash)])
    THEN Some(Concat([i \in 1..Len(nar.chunks) |->
                 Decompress(nar.chunks[i].compression,
                            chunkFiles[ToTypedBase32(nar.chunks[i].file_hash)])]))
    ELSE NoneV

\* C3: in every reachable state every persisted manifest lists chunks that
\* exist and decode to an archive of the manifest's nar_size and nar_hash.
C3_ManifestIntegrity ==
    \A h \in DOMAIN narFiles :
        IsSome(Manifest(h)) =>
            LET nar == Unwrap(Manifest(h))
            IN /\ IsSome(DecodedChunks(nar))
               /\ Len(Unwrap(DecodedChunks(nar))) = nar.nar_size
               /\ Sha256(Unwrap(DecodedChunks(nar))) = nar.nar_hash

\* the UploadedChunk of a slice
ChunkOf(slice) ==
    UploadedChunk(Sha256(get_compressor_fn(cfg.compression, slice)),
                  Len(get_compressor_fn(cfg.compression, slice)), cfg.compression)

\* the slices the chunker emits for the received archive, in order
EmittedSlices == ChunkAll(ChunkerInit, Received, ChunkingParams)

\* C4: the manifest of a chunked upload lists, at position i, the chunk of
\* the i-th slice the chunker emitted, whatever order the tasks finished in.
C4_ChunkOrder ==
    (upPath = "chunked" /\ upResp = "Uploaded")
        => /\ IsSome(Manifest(upInfo.store_path_hash))
           /\ Unwrap(Manifest(upInfo.store_path_hash)).chunks
                = [i \in 1..Len(EmittedSlices) |-> ChunkOf(EmittedSlices[i])]

C4_Witness ==
    /\ upPath = "chunked"
    /\ upResp = "Uploaded"
    /\ reordered
    /\ Len(EmittedSlices) >= 2
    /\ EmittedSlices[1] # EmittedSlices[2]

\* C5: the manifest file is written only after the archive hash and size
\* check has passed and every chunk upload of the request has succeeded;
\* a request one of whose tasks failed never writes it.
C5_ManifestLast ==
    /\ [][narFiles' # narFiles =>
            /\ ~Mismatch
            /\ \A i \in 1..Len(futures) : futures[i].st = "ok"
            /\ upPath = "chunked" => (chunks.st = "ended" /\ data = NoneV)
            /\ upPath = "unchunked" =>
                  /\ IsSome(upRead)
                  /\ UnchunkedKey \in DOMAIN chunkFiles
                  /\ chunkFiles[UnchunkedKey] = Unwrap(upRead).read]_vars
    /\ []((\E i \in 1..Len(futures) : futures[i].st \in {"err", "panic"})
            => (upPc \notin {"n_create", "n_copy"} /\ upResp # "Uploaded"))

C5_Witness ==
    /\ upPath = "chunked"
    /\ upResp = "Uploaded"
    /\ Len(futures) >= 2
    /\ upInfo.store_path_hash \in DOMAIN narFiles

\* the tasks that hold a permit
Holding == {i \in 1..Len(futures) : futures[i].permit}

\* C6: at most CONCURRENT_CHUNK_UPLOADS tasks hold a permit; a task holds
\* its permit exactly until it has finished; a task is spawned only when a
\* permit is free; the chunker is asked for a slice only when none waits.
C6_PermitBound ==
    /\ [](/\ Cardinality(Holding) <= CONCURRENT_CHUNK_UPLOADS
          /\ permits = CONCURRENT_CHUNK_UPLOADS - Cardinality(Holding)
          /\ \A i \in 1..Len(futures) :
                futures[i].permit <=> futures[i].st \in {"spawned", "created"})
    /\ [][/\ Len(futures') > Len(futures)
             => Cardinality(Holding) < CONCURRENT_CHUNK_UPLOADS
          /\ chunks' # chunks => data = NoneV]_vars

C6_Witness ==
    /\ Cardinality(Holding) = CONCURRENT_CHUNK_UPLOADS
    /\ IsSome(data)
    /\ permits = 0

\* C7: the unchunked path is taken iff the threshold is 0 or the declared
\* nar_size is below the threshold; the declared size decides, not the body.
C7_Dispatch ==
    upPath # "none" =>
        /\ upPath = "unchunked"
              <=> (cfg.nar_size_threshold = 0 \/ upInfo.nar_size < cfg.nar_size_threshold)
        /\ upPath = "chunked"
              <=> (cfg.nar_size_threshold >= 1 /\ upInfo.nar_size >= cfg.nar_size_threshold)

C7_Witness ==
    /\ upPath = "chunked"
    /\ upInfo.nar_size = cfg.nar_size_threshold
    /\ Len(upBody) < upInfo.nar_size

\* C8 as stated: with threshold 0 every upload takes the chunked path.
C8_ZeroAlwaysChunked ==
    (cfg.nar_size_threshold = 0 /\ upPath # "none") => upPath = "chunked"

\* C8 amended: with threshold 0 every upload takes the unchunked path,
\* whatever its nar_size, and no chunk task is spawned.
C8_ZeroNeverChunked ==
    (cfg.nar_size_threshold = 0 /\ upPath # "none")
        => (upPath = "unchunked" /\ futures = <<>> /\ chunks = ChunkerOver(readSize))

C8_Witness ==
    /\ cfg.nar_size_threshold = 0
    /\ upPath = "unchunked"
    /\ upInfo.nar_size >= cfg.max_size
    /\ upPc = "done"

\* C9: every persisted manifest lists at least one chunk, and the download
\* handler never merges an empty chunk list.
C9_AtLeastOneChunk ==
    /\ \A h \in DOMAIN narFiles :
          IsSome(Manifest(h)) => Len(Unwrap(Manifest(h)).chunks) >= 1
    /\ IsSome(from_slice(upNar)) => Len(Unwrap(from_slice(upNar)).chunks) >= 1
    /\ getPc = "merge" => Len(mQueue0) >= 2

C9_Witness ==
    /\ getPc = "merge"
    /\ upPath = "chunked"
    /\ \E h \in DOMAIN narFiles :
          IsSome(Manifest(h)) /\ Len(Unwrap(Manifest(h)).chunks) >= 2

\* the items of all descriptors of the queue, in queue order
ExpectedItems == Concat([k \in 1..Len(mQueue0) |-> mQueue0[k].frames])

\* C10: with num_prefetch >= 1 and no failing open or frame, the merged
\* stream yields the frames of descriptor 1, then those of descriptor 2 and
\* so on, each descriptor's frames contiguous and in order, and ends with
\* all of them yielded.
C10_MergeOrder ==
    (num_prefetch >= 1 /\ mPc # "failed")
        => /\ IsPrefix(mOut, ExpectedItems)
           /\ mPc = "done" => (/\ mOut = ExpectedItems
                               /\ BytesOf(mOut) = BytesOf(ExpectedItems))

C10_Witness ==
    /\ mPc = "done"
    /\ num_prefetch = 2
    /\ Len(mQueue0) = 3
    /\ Len(mQueue0[2].frames) = 2
    /\ Len(mQueue0[1].frames) = 1
    /\ mOut = ExpectedItems

\* the position in the queue of the descriptor whose stream is drained
\* (while draining no handle is awaited: every opened descriptor is either
\* still queued in streams, being drained, or already drained)
Draining == Len(mOpened) - Len(streams)

\* C11 as stated: while descriptor k is drained the opens of descriptors
\* k+1 .. k+num_prefetch (those that exist) have been spawned.
C11_WindowFull ==
    mPc = "drain" => Len(mOpened) >= Min(Draining + num_prefetch, Len(mQueue0))

\* C11 amended: while descriptor k is drained exactly the opens of the
\* descriptors up to k+num_prefetch-1 (those that exist) have been spawned:
\* num_prefetch-1 opens beyond the one being streamed, never num_prefetch.
C11_WindowLessOne ==
    mPc = "drain" =>
        /\ Draining >= 1
        /\ Len(mOpened) = Min(Draining + num_prefetch - 1, Len(mQueue0))
        /\ \A j \in 1..Len(mOpened) : mOpened[j] = mQueue0[j].id
        /\ Len(streams) <= num_prefetch - 1

C11_Witness ==
    /\ mPc = "drain"
    /\ mStream # <<>>
    /\ num_prefetch = 2
    /\ Len(mQueue0) >= 3
    /\ Draining = 1
    /\ Len(mOpened) = 2

\* C12: with num_prefetch >= 1 and nothing failing the merged stream
\* eventually ends, and it ends only with the descriptor queue and the
\* in-flight queue empty and no opened stream undrained.
C12_MergeTerminates ==
    /\ (num_prefetch >= 1) ~> (mPc = "done")
    /\ [](mPc = "done" =>
            /\ mChunks = <<>>
            /\ streams = <<>>
            /\ mAwait = NoneV
            /\ mStream = <<>>
            /\ Len(mOpened) = Len(mQueue0))

C12_Witness ==
    /\ mPc = "done"
    /\ num_prefetch = 1
    /\ Len(mQueue0) >= 2
    /\ Len(mOut) >= 3

\* the slices chunks.next() has returned so far, in order
SlicesSoFar ==
    [i \in 1..Len(futures) |-> futures[i].data]
        \o (IF IsSome(data) THEN <<Unwrap(data)>> ELSE <<>>)

\* C13: for every input and min <= avg <= max the slices chunk_stream
\* emits concatenate to the input, and the stream ends after the last byte.
C13_ChunkRoundTrip ==
    upPath = "chunked" =>
        /\ IsPrefix(Concat(SlicesSoFar), Received)
        /\ chunks.st = "ended" => Concat(SlicesSoFar) = Received
        /\ (upPc = "chunked" /\ data = NoneV)
              => ChunkerNext(chunks, Received, ChunkingParams)[2].st # "hung"
        /\ Concat(ChunkAll(ChunkerOver(readSize), Received, ChunkingParams)) = Received

\* C14: the slices emitted do not depend on the read sizes: a run over a
\* stream delivering k bytes per read emits the slices of the run over a
\* stream delivering one byte per read (ChunkerInit), and so does the run
\* that is made, slice by slice.
C14_ReadSizeIndependent ==
    upPath = "chunked" =>
        /\ chunks = ChunkerOver(readSize) =>
              \A k \in 1..(MaxChunkBody + 1) :
                  ChunkAll(ChunkerOver(k), Received, ChunkingParams)
                    = ChunkAll(ChunkerInit, Received, ChunkingParams)
        /\ IsPrefix(SlicesSoFar, ChunkAll(ChunkerInit, Received, ChunkingParams))
        /\ chunks.st = "ended"
              => SlicesSoFar = ChunkAll(ChunkerInit, Received, ChunkingParams)

C14_Witness ==
    /\ upPath = "chunked"
    /\ readSize = 2
    /\ chunks.st = "ended"
    /\ Len(Received) > cfg.max_size
    /\ cfg.max_size = 3
    /\ Len(SlicesSoFar) >= 2
    /\ Concat(SlicesSoFar) = Received

\* C15: every slice chunk_stream emits has between 1 and max_size bytes,
\* so an accepted chunked upload of nar_size bytes lists at least
\* ceil(nar_size / max_size) chunks in its manifest.
C15_SliceSizes ==
    upPath = "chunked" =>
        /\ \A i \in 1..Len(SlicesSoFar) :
              Len(SlicesSoFar[i]) >= 1 /\ Len(SlicesSoFar[i]) <= cfg.max_size
        /\ \A i \in 1..Len(chunks.queue) :
              Len(chunks.queue[i]) >= 1 /\ Len(chunks.queue[i]) <= cfg.max_size
        /\ chunks.st = "ended"
              => Len(SlicesSoFar) >= CeilDiv(Len(Received), cfg.max_size)
        /\ upResp = "Uploaded"
              => /\ IsSome(Manifest(upInfo.store_path_hash))
                 /\ Len(Unwrap(Manifest(upInfo.store_path_hash)).chunks)
                      >= CeilDiv(upInfo.nar_size, cfg.max_size)

C15_Witness ==
    /\ upPath = "chunked"
    /\ upResp = "Uploaded"
    /\ cfg.max_size = 3
    /\ upInfo.nar_size = 4
    /\ chunks.buf = <<>>
    /\ Len(Unwrap(Manifest(upInfo.store_path_hash)).chunks) >= 2

\* ---- SpecRequest claims
\* the size header values that are unsigned integers, with their values
UnsignedOf ==
    (<<"0">> :> 0) @@ (<<"1">> :> 1) @@ (<<"2">> :> 2) @@ (<<"3">> :> 3)
    @@ (<<"4">> :> 4) @@ (<<"+", "2">> :> 2) @@ (<<"0", "2">> :> 2)

\* the size header of the request holds an unsigned integer above the limit
Oversize(r) ==
    /\ IsSome(r.preamble_size)
    /\ Unwrap(r.preamble_size) \in DOMAIN UnsignedOf
    /\ UnsignedOf[Unwrap(r.preamble_size)] > MAX_NAR_INFO_SIZE

\* the upload info of the request is missing or unusable: a size header that
\* is no unsigned integer, or one above the limit, or above the length of
\* the body, or whose bytes are no Request document; without a size header,
\* an info header that is no Request document, or no info header
PreambleFault(r) ==
    IF IsSome(r.preamble_size)
    THEN \/ Unwrap(r.preamble_size) \notin DOMAIN UnsignedOf
         \/ Oversize(r)
         \/ BodyLen(r.body) < UnsignedOf[Unwrap(r.preamble_size)]
         \/ ~IsSome(RequestFromSlice(BodyTake(r.body, UnsignedOf[Unwrap(r.preamble_size)])))
    ELSE IF IsSome(r.nar_info)
    THEN ~IsSome(RequestFromSlice(Body(Unwrap(r.nar_info), <<>>)))
    ELSE TRUE

\* C16: a request that reaches upload_path with a missing or unusable upload
\* info is answered RequestError, status 400, and nothing is written to the
\* storage; an oversize preamble is rejected with no body byte read.
C16_PreambleRejected ==
    (upReq.handled /\ PreambleFault(upReq.req)) =>
        /\ upPc = "done"
        /\ upResp = "RequestError"
        /\ StatusOf(upResp) = 400
        /\ chunkFiles = <<>>
        /\ narFiles = <<>>
        /\ Oversize(upReq.req) => upReq.read = 0

\* an oversize preamble in front of a body that holds bytes was rejected
C16_Witness ==
    /\ upReq.handled
    /\ Oversize(upReq.req)
    /\ BodyLen(upReq.req.body) > 0
    /\ upResp = "RequestError"

\* the request carries a Bearer token that verifies under the secret
ValidBearer(r) ==
    /\ IsSome(r.authorization)
    /\ Len(Unwrap(r.authorization)) = 2
    /\ Unwrap(r.authorization)[1] = "Bearer"
    /\ Unwrap(r.authorization)[2].alg = "HS256"
    /\ Unwrap(r.authorization)[2].key = cfg.token_hs256_secret
    /\ ~Unwrap(r.authorization)[2].expired

\* C17: with a secret configured, a PUT without a Bearer token that verifies
\* is answered InvalidToken, status 401, upload_path is not invoked and
\* nothing is written; a PUT with one reaches upload_path.
C17_AuthClosed ==
    ("token_hs256_secret" \in DOMAIN cfg /\ nUploads = 1) =>
        IF ValidBearer(upReq.req)
        THEN upReq.handled /\ upResp # "InvalidToken"
        ELSE /\ ~upReq.handled
             /\ upPc = "done"
             /\ upResp = "InvalidToken"
             /\ StatusOf(upResp) = 401
             /\ upReq.read = 0
             /\ chunkFiles = <<>>
             /\ narFiles = <<>>

\* a well-formed upload whose token was signed with another key was refused
C17_Witness ==
    /\ "token_hs256_secret" \in DOMAIN cfg
    /\ nUploads = 1
    /\ IsSome(Bearer(upReq.req.authorization))
    /\ ~ValidBearer(upReq.req)
    /\ ~PreambleFault(upReq.req)
    /\ upResp = "InvalidToken"

\* C18: without a secret, every PUT reaches upload_path, whatever its
\* Authorization header, and is dispatched to a storing path exactly when
\* its upload info is usable.
C18_AuthOpen ==
    ("token_hs256_secret" \notin DOMAIN cfg /\ nUploads = 1) =>
        /\ upReq.handled
        /\ upResp # "InvalidToken"
        /\ PreambleFault(upReq.req) <=> upPath = "none"

\* an upload with a malformed Authorization header was stored
C18_Witness ==
    /\ "token_hs256_secret" \notin DOMAIN cfg
    /\ upReq.req.authorization = Some(<<"Bearer">>)
    /\ upReq.handled
    /\ upResp = "Uploaded"

\* ---- SpecError claims
\* C19: the response to an error is the envelope {code, error, message}
\* with code equal to the status; a StorageError and a
\* ManifestSerializationError are answered 500 as InternalServerError, with
\* neither their name nor their message nor their cause; NotFound is
\* answered 404 and RequestError 400.
C19_ErrorRendering ==
    IsSome(srvResponse) =>
        LET e == Unwrap(srvError)
            r == Unwrap(srvResponse)
        IN /\ DOMAIN r.json = {"code", "error", "message"}
           /\ r.json.code = r.status
           /\ e.kind \in {"StorageError", "ManifestSerializationError"} =>
                 /\ r.status = 500
                 /\ r.json.error = "InternalServerError"
                 /\ r.json.message = to_string(ErrorKind("InternalServerError", ""))
                 /\ \A i \in 1..Len(r.json.message) : r.json.message[i] # e.cause
           /\ e.kind = "NotFound" => r.status = 404 /\ r.json.error = "NotFound"
           /\ e.kind = "RequestError" => r.status = 400 /\ r.json.error = "RequestError"

\* a ManifestSerializationError with a cause was turned into a response
C19_Witness ==
    /\ IsSome(srvResponse)
    /\ Unwrap(srvError).kind = "ManifestSerializationError"
    /\ Unwrap(srvError).cause # ""
    /\ Unwrap(srvResponse).status = 500

\* ---- SpecGet claims
\* the path of the GET served is {x}.{suffix of its route} with an x that
\* is no store path hash
BadHashPath ==
    /\ getPath.route \in {"nar", "narinfo"}
    /\ Len(splitn(getPath.path)) = 2
    /\ splitn(getPath.path)[2] = <<getPath.route>>
    /\ splitn(getPath.path)[1] \notin {<<h>> : h \in StorePathHashes}

\* C20: a GET of {x}.narinfo or of nar/{x}.nar whose x is no store path hash
\* is answered 404.
C20_BadHashNotFound ==
    (getPc = "done" /\ BadHashPath) => StatusOf(getResp) = 404

\* the GET served named a store path hash, and no manifest is stored for it
MissingManifest ==
    /\ getPath.route \in {"nar", "narinfo"}
    /\ IsSome(PathHash(getPath.path, getPath.route).hash)
    /\ Unwrap(PathHash(getPath.path, getPath.route).hash) \notin DOMAIN narFiles

\* C21: a GET of the narinfo or of the archive of a well-formed store path
\* hash that has no manifest in the storage is answered NotFound, 404.
C21_MissingNotFound ==
    (getPc = "done" /\ MissingManifest) =>
        getResp = "NotFound" /\ StatusOf(getResp) = 404

\* the bucket received an AbortMultipartUpload
AbortIssued == \E i \in 1..Len(s3Calls) : s3Calls[i].op = "AbortMultipartUpload"

\* upload_file created a multipart upload
MultipartCreated == s3Upload.st # "none"

\* C22: every multipart upload that upload_file creates ends completed by
\* the bucket or with an AbortMultipartUpload issued; an upload_file that
\* returned Ok never has its upload aborted; and after every exit that is not
\* a successful return (a failed read, a failed UploadPart, a failed
\* CompleteMultipartUpload, the future dropped) the abort is issued.
C22_AbortGuarantee ==
    /\ [](MultipartCreated => <>(s3Upload.st = "completed" \/ AbortIssued))
    /\ [](s3Pc = "done" => ~AbortIssued)
    /\ []((MultipartCreated /\ s3Pc \in {"failed", "dropped"}) => <>AbortIssued)

C22_Witness ==
    /\ s3Pc \in {"failed", "dropped"}
    /\ MultipartCreated
    /\ AbortIssued
    /\ s3Upload.st = "aborted"

\* the i-th stretch of CHUNK_SIZE bytes of the stream
StreamPart(input, i) ==
    SubSeq(input, (i - 1) * CHUNK_SIZE + 1, Min(i * CHUNK_SIZE, Len(input)))

\* the CompleteMultipartUpload requests the bucket received
CompleteCalls == {i \in 1..Len(s3Calls) : s3Calls[i].op = "CompleteMultipartUpload"}

\* C23: the parts of a multipart upload are numbered 1, 2, .., n in stream
\* order, every part but the last is CHUNK_SIZE long and none is empty; a
\* CompleteMultipartUpload lists every part, at position i the number i with
\* the ETag returned for the part sent with part_number i, in whatever order
\* the UploadPart requests were answered.
C23_PartNumbering ==
    /\ \A i \in 1..Len(parts) :
          /\ parts[i].number = i
          /\ parts[i].body = StreamPart(s3Input, i)
          /\ parts[i].body # <<>>
          /\ i < Len(parts) => Len(parts[i].body) = CHUNK_SIZE
    /\ \A c \in CompleteCalls :
          /\ Len(s3Calls[c].body) = Len(parts)
          /\ \A i \in 1..Len(parts) :
                /\ s3Calls[c].body[i].part_number = i
                /\ \E k \in 1..Len(parts) :
                      /\ parts[k].number = i
                      /\ parts[k].st = "ok"
                      /\ s3Calls[c].body[i].e_tag = parts[k].e_tag
                      /\ s3Calls[c].body[i].e_tag = Some(ETag(StreamPart(s3Input, i)))

\* a CompleteMultipartUpload of three parts whose UploadPart requests were
\* answered out of order
C23_Witness ==
    /\ CompleteCalls # {}
    /\ Len(parts) = 3
    /\ \E j, k \in 1..Len(s3Calls) :
          /\ j < k
          /\ s3Calls[j].op = "UploadPart"
          /\ s3Calls[k].op = "UploadPart"
          /\ s3Calls[j].n > s3Calls[k].n

\* the number of requests of one operation the bucket received
Calls(op) == Cardinality({i \in 1..Len(s3Calls) : s3Calls[i].op = op})

MultipartCalls ==
    Calls("CreateMultipartUpload") + Calls("UploadPart") + Calls("CompleteMultipartUpload")
        + Calls("AbortMultipartUpload")

\* C24: once upload_file has read its first chunk, it has sent one PutObject
\* and no multipart request if and only if the stream holds fewer than
\* CHUNK_SIZE bytes; for a stream of CHUNK_SIZE bytes or more it has sent one
\* CreateMultipartUpload and no PutObject; and the object stored, when
\* upload_file returns Ok, is the stream's bytes in order.
C24_UploadPolicy ==
    /\ s3Calls # <<>> =>
          /\ (Calls("PutObject") = 1 /\ MultipartCalls = 0) <=> Len(s3Input) < CHUNK_SIZE
          /\ Len(s3Input) >= CHUNK_SIZE =>
                Calls("CreateMultipartUpload") = 1 /\ Calls("PutObject") = 0
    /\ s3Pc = "done" => S3Key \in DOMAIN s3Objects
    /\ \A k \in DOMAIN s3Objects : s3Objects[k] = s3Input

\* upload_file returned Ok for a stream of exactly CHUNK_SIZE bytes
C24_Witness ==
    /\ s3Pc = "done"
    /\ Len(s3Input) = CHUNK_SIZE
    /\ Calls("CreateMultipartUpload") = 1
    /\ s3Objects = (S3Key :> s3Input)

\* C25: on the unchunked path, when the handler is about to read the two
\* hash cells, the compressed stream was read to its end and the file-hash
\* cell is populated, whatever the length of the compressed output.
C25_CellsPopulated ==
    upPc = "unchunked" =>
        IsSome(CompressionStream(cfg.compression, Received, cfg.max_size).file_compute)

\* the upload served repeats the request of the upload answered 200 just
\* before it, and the storage did not fail since
Reuploaded ==
    /\ upPrev.resp = "Uploaded"
    /\ upPrev.req = upReq.req
    /\ upPrev.faults = faults

\* C26: when the request of an upload answered 200 is sent again and the
\* storage does not fail, the second upload is answered 200 as well, writes
\* the chunk keys and the manifest key the first wrote, and leaves the
\* storage, keys and contents, as the first left it.
C26_IdempotentReupload ==
    (upPc = "done" /\ Reuploaded) =>
        /\ upResp = "Uploaded"
        /\ WrittenChunks = upPrev.chunks
        /\ {upInfo.store_path_hash} = upPrev.nar
        /\ chunkFiles = upPrev.chunkFiles
        /\ narFiles = upPrev.narFiles

\* a chunked upload of two chunks was repeated
C26_Witness ==
    /\ upPc = "done"
    /\ Reuploaded
    /\ upPath = "chunked"
    /\ Cardinality(WrittenChunks) >= 2

\* the chunk file k holds its complete content: the bytes whose hash names it
CompleteChunk(files, k) ==
    k \in DOMAIN files /\ ToTypedBase32(Sha256(files[k])) = k

\* C27: a chunk object that exists with its complete content is never
\* mutated: every step leaves an object at its key with exactly that content.
C27_ChunksImmutable ==
    [][\A k \in DOMAIN chunkFiles :
          CompleteChunk(chunkFiles, k) =>
              k \in DOMAIN chunkFiles' /\ chunkFiles'[k] = chunkFiles[k]]_vars

\* C28: a GET of the narinfo or of the archive that finds a manifest object
\* under its store path hash, at whatever point of the upload writing it,
\* reads the complete manifest, and every chunk the manifest lists is stored
\* in full.
C28_ManifestAtomic ==
    [][(getPc = "idle" /\ getPc' # "idle" /\ getHash' \in DOMAIN narFiles) =>
          /\ IsSome(getNar')
          /\ \A i \in 1..Len(Unwrap(getNar').chunks) :
                CompleteChunk(chunkFiles,
                              ToTypedBase32(Unwrap(getNar').chunks[i].file_hash))]_vars

\* a manifest is persisted under k: the object holds a whole manifest
Persisted(files, k) == k \in DOMAIN files /\ IsSome(from_slice(files[k]))

\* C29: a manifest persisted under a store path hash is never mutated: every
\* step, of whatever later upload, leaves the object byte-identical.
C29_ManifestsImmutable ==
    [][\A k \in DOMAIN narFiles :
          Persisted(narFiles, k) =>
              k \in DOMAIN narFiles' /\ narFiles'[k] = narFiles[k]]_vars

\* what read_chunk_async returns for the stream, computed in one piece
WholeRead == read_chunk_async(shInput, <<>>, shCap, readSize)

\* C30: the cell of a StreamHasher is absent as long as no read of the
\* wrapped stream returned 0; once one did, the cell holds the digest and the
\* count of the bytes passed through, which are the stream's bytes unchanged;
\* a cell that is set never changes; and a reader that stopped without a read
\* of 0 leaves the cell absent, also when it took every byte of the stream.
C30_OneShotCell ==
    /\ [](/\ shBuf = SubSeq(shInput, 1, Len(shBuf))
          /\ shEos = 0 => shCell = NoneV
          /\ shEos > 0 =>
                /\ shBuf = shInput
                /\ shCell = Some([hash |-> Sha256(shInput), size |-> Len(shInput)])
          /\ shPc = "stopped" =>
                /\ shBuf = WholeRead.bytes
                /\ (shEos > 0) = WholeRead.sawEof)
    /\ [][IsSome(shCell) => shCell' = shCell]_vars

\* the reader stopped on a full buffer that holds every byte of a non-empty
\* stream: the cell is absent
C30_Witness ==
    /\ shPc = "stopped"
    /\ shInput # <<>>
    /\ shBuf = shInput
    /\ shEos = 0
    /\ shCell = NoneV

\* C31: to_nix_base32 of a byte string of any length, the empty one
\* included, returns without panic ceil(len * 8 / 5) characters of the
\* alphabet, and from_nix_base32 of that text gives the byte string back.
C31_Base32RoundTrip ==
    /\ b32Pc \notin {"idle", "start"} =>
          /\ ~b32Text.panic
          /\ Len(b32Text.value) = EncodedLenCeil(Len(b32Bytes))
          /\ \A k \in 1..Len(b32Text.value) : Position(b32Text.value[k]) < 32
    /\ b32Pc = "decoded" => b32Back = Base32Ok(Some(b32Bytes))

\* the same for the byte strings of at least one byte
Base32RoundTripNonEmpty == b32Bytes # <<>> => C31_Base32RoundTrip

\* C32: a chunk task that is about to unwrap file_hash_and_size() finds the
\* cell populated: its compressed stream was read to the end, whatever the
\* slice and the compression. No chunk task panics.
C32_TaskCellPopulated ==
    \A i \in 1..Len(futures) :
        /\ futures[i].st = "spawned" => IsSome(TaskStream(i).file_compute)
        /\ futures[i].st # "panic"

\* C33: a chunk task that has ended, in whatever way, holds no permit, and a
\* chunked upload whose body ends and whose storage calls return is
\* answered in the end.
C33_ChunkedTerminates ==
    /\ [](\A i \in 1..Len(futures) :
             futures[i].st \in {"ok", "err", "panic"} => ~futures[i].permit)
    /\ (upPc = "chunked") ~> (upPc = "done")

\* the upload was answered 400 for a mismatch of the archive hash or size
RejectedMismatch ==
    /\ upPc = "done"
    /\ upResp = "RequestError"
    /\ upPath \in {"unchunked", "chunked"}
    /\ Mismatch

PartInFlight == \E i \in 1..Len(parts) : parts[i].st = "run"

\* C35: when the abort guard issues AbortMultipartUpload no UploadPart
\* request of the upload is in flight, and none reaches the bucket afterwards.
C35_AbortAfterParts ==
    [][/\ (cleanup = "spawned" /\ cleanup' = "ran") => ~PartInFlight
       /\ AbortIssued => \A i \in 1..Len(parts) : parts'[i].st = "run" \/ parts[i].st # "run"]_vars

\* the ids of a queue of descriptors
IdsOf(q) == [k \in 1..Len(q) |-> q[k].id]

\* the opened streams not yet drained: the handles in the FIFO and the one
\* popped from it that is awaited or drained
Undrained ==
    Len(streams) + (IF IsSome(mAwait) \/ (mPc = "drain" /\ mStream # <<>>) THEN 1 ELSE 0)

\* C36: at most num_prefetch opened streams are undrained, the descriptors
\* opened are the head of the queue in its order, each opened once and none
\* both opened and still queued, all of them by the end of the stream, and
\* an open is only spawned while the FIFO holds less than num_prefetch
\* handles.
C36_BoundedPrefetch ==
    /\ [](/\ Undrained <= num_prefetch
          /\ mOpened \o IdsOf(mChunks) = IdsOf(mQueue0)
          /\ \A j, k \in 1..Len(mOpened) : mOpened[j] = mOpened[k] => j = k
          /\ mPc = "done" => mOpened = IdsOf(mQueue0))
    /\ [][Len(mOpened') > Len(mOpened) =>
            /\ Len(streams) < num_prefetch
            /\ Len(mOpened') - Len(mOpened) <= num_prefetch - Len(streams)]_vars

C36_Witness ==
    /\ mPc = "drain"
    /\ mStream # <<>>
    /\ num_prefetch = 2
    /\ Len(streams) = 1
    /\ Len(mOpened) = 3
    /\ mChunks = <<>>

\* the frames of the first k descriptors of the queue, in order
ItemsUpTo(k) == Concat([j \in 1..k |-> mQueue0[j].frames])

\* C37: when the open of chunk k has failed or a frame of chunk k is an
\* error, the next item the merged stream yields is the error and it is the
\* last: before it stand the frames of the chunks before k and the frames of
\* chunk k that preceded the failure, nothing is yielded after it and no
\* descriptor is opened after it.
C37_ErrorStop ==
    /\ [](mPc = "failed" =>
            /\ Draining >= 1
            /\ mOut[Len(mOut)].err
            /\ \A j \in 1..(Len(mOut) - 1) : ~mOut[j].err
            /\ IsPrefix(SubSeq(mOut, 1, Len(mOut) - 1), ItemsUpTo(Draining))
            /\ IsPrefix(ItemsUpTo(Draining - 1), SubSeq(mOut, 1, Len(mOut) - 1)))
    /\ [][mPc = "failed" =>
            /\ mPc' = "failed"
            /\ mOut' = mOut
            /\ mOpened' = mOpened
            /\ mChunks' = mChunks]_vars
    /\ [][(mPc = "await" /\ Unwrap(mAwait).st = "err" /\ mPc' # "await") =>
            /\ mPc' = "failed"
            /\ mOut' = Append(mOut, ErrItem)]_vars
    /\ [][(mPc = "drain" /\ mStream # <<>> /\ mOut' # mOut /\ mOut'[Len(mOut')].err) =>
            mPc' = "failed"]_vars

C37_Witness ==
    /\ mPc = "failed"
    /\ Draining = 2
    /\ Len(mQueue0[1].frames) >= 1
    /\ Len(mQueue0[2].frames) = 2
    /\ Len(mOut) = Len(mQueue0[1].frames) + 2
    /\ Len(streams) = 1
    /\ streams[1].st = "running"

\* C38: with num_prefetch = 0 and a non-empty descriptor queue merge_chunks
\* never spawns an open, never yields an item and never ends; with an empty
\* descriptor queue it ends at its first step with no item, whatever
\* num_prefetch is.
C38_ZeroPrefetch ==
    /\ []((num_prefetch = 0 /\ mQueue0 # <<>>) =>
            /\ mOpened = <<>>
            /\ streams = <<>>
            /\ mAwait = NoneV
            /\ mOut = <<>>
            /\ mPc \in {"start", "spin"})
    /\ [](mQueue0 = <<>> =>
            /\ mOpened = <<>>
            /\ mOut = <<>>
            /\ mPc \in {"start", "done"})
    /\ [][(mQueue0 = <<>> /\ mPc = "start") => mPc' = "done"]_vars
    /\ (mQueue0 = <<>>) ~> (mPc = "done")

C38_Witness ==
    /\ num_prefetch = 0
    /\ Len(mQueue0) = 2
    /\ mChunks = mQueue0
    /\ mPc = "spin"

\* in how many places the path_info of job k is: waiting in the channel, in
\* the hand of a worker, or uploaded
InChannel(k) == Cardinality({i \in 1..Len(channel) : channel[i].job = k})
InHand(k) ==
    Cardinality({w \in 1..Len(workers) :
                   workers[w].st = "upload" /\ Unwrap(workers[w].path_info).job = k})
UploadsOf(k) == Len(uploaded[k])

\* C39: every path_info queued is at every moment in exactly one place (in
\* the channel, with one worker, or uploaded once); wait() drops the sender,
\* and when it returns the channel is empty, every worker has exited, every
\* queued path_info was uploaded exactly once and the map returned has
\* exactly the queued store paths as keys.
C39_PushWorkerPool ==
    /\ \A k \in 1..Len(queued) : InChannel(k) + InHand(k) + UploadsOf(k) = 1
    /\ Len(uploaded) = Len(queued)
    /\ pushPc \in {"join", "done"} => ~sender
    /\ pushPc = "done" =>
          /\ channel = <<>>
          /\ \A w \in 1..Len(workers) : workers[w].st = "exited"
          /\ \A k \in 1..Len(queued) : UploadsOf(k) = 1
          /\ DOMAIN Unwrap(waitResults) = {queued[k].path : k \in 1..Len(queued)}

C39_Witness ==
    /\ pushPc = "done"
    /\ Len(workers) = 2
    /\ Len(queued) = 3
    /\ {queued[k].path : k \in 1..3} = PushPaths
    /\ {uploaded[k][1] : k \in 1..3} = {1, 2}

\* the route of Rest is inside the RequireAuth layer
Gated(x) == \E i \in 1..Len(x.layers) : x.layers[i] = "RequireAuth"

\* the request routed carries no bearer token the configured secret accepts
Unauthorized ==
    /\ IsSome(rtReq)
    /\ IsSome(token_hs256_secret(cfg))
    /\ RequireAuth(token_hs256_secret(cfg), Unwrap(rtReq).authorization) # "next"

====
